---------------------------- MODULE Spec2Model ----------------------------
(***************************************************************************)
(* A model of reporter_generator.py (the daily agent report generator):    *)
(* the source classifier, the best-file selector, the per-source           *)
(* standardizers, the identity universe (base_keys) with its final          *)
(* aggregation, and the ratio metrics.                                      *)
(*                                                                         *)
(* Strings of the source that are not ASCII are written with an ASCII      *)
(* alias (the module's lexer takes ASCII only); every alias is listed next *)
(* to the definition that uses it.  NA stands for pandas' missing value    *)
(* (None / NaN / pd.NA).                                                    *)
(***************************************************************************)
EXTENDS Integers, Sequences, FiniteSets, TLC

VARIABLES
    \* ---- source classifier (classify_file / classify_file_smart)
    cls_pc,         \* position inside classify_file_smart
    path,           \* the file name, as the set of its pieces
    file,           \* what read_any_table would return for the file
    typ,            \* classify_file's answer ("none" before the call)
    kind,           \* classify_file_smart's answer ("none" before it returns)
    content_read,   \* TRUE once read_any_table was called on the file
    \* ---- best-file selector (select_best_file_by_date_range and its caller)
    sel_pc,         \* position inside the selector / its caller in main
    file_paths,     \* the candidate files of one kind, in list order
    fpath_i,        \* index of the candidate the for loop is at
    best_file,      \* index of the best candidate so far (0: None)
    best_score,     \* (date span, max date, row count) of best_file
    selected,       \* the selector's return value (index; 0: None)
    selected_files, \* main's selected_files[typ]
    \* ---- metric calculation (main, step 5)
    met_pc,         \* position inside the metric calculation
    main,           \* the merged frame: one row, column -> cell
    OFFSET_MODE,    \* the configuration constant of that name
    WITHDRAW_APPROX_MODE,   \* the configuration constant of that name
    ratio,          \* the local "ratio" of the offset-retention block
    metrics,        \* the columns the calculation adds to main
    \* ---- per-source standardizers (std_ops ... std_cost)
    std_pc,         \* "call" before a standardizer ran, "done" after
    df,             \* the table read from the file
    filename,       \* the file's name, split at "-"
    std_fn,         \* the standardizer that ran
    result,         \* what it returned (or that it raised)
    \* ---- main's name -> id map (built from ops data)
    name_id_map,
    \* ---- main: the identity universe, from the agent files to the output
    main_pc,        \* position inside main
    ops_files,      \* the tables of the files classified "ops"
    agent_files,    \* the files classified "agent": name and table
    file_i,         \* number of agent files processed so far
    agent_list,     \* the non-empty std_agent results
    agent,          \* the agent frame
    selected_date,  \* the date the report is for
    sources,        \* the four *_for_base frames the universe is filled from
    src_i,          \* number of supplement sources processed so far
    base_keys,      \* the identity universe
    main_id,        \* main: its identity columns (date, platform, id, name)
    output,         \* the rows of the written report
    \* ---- column lookup (pick_col)
    pick_pc,        \* "call" before pick_col ran, "done" after
    df_columns,     \* df.columns, in order
    alias_list,     \* the aliases of the field, in priority order
    picked,         \* pick_col's return value
    \* ---- one agent-report row from file to output
    scn_pc,         \* position inside main
    scn_file,       \* the agent file: name, agent-id column, the row's cells
    scn_agent,      \* the row std_agent returns
    scn_main,       \* the row of main after the merges and the metrics
    scn_out,         \* the row of the written report
    \* ---- main: the retention merge (ret_pick)
    ret_pc,         \* position inside the retention merge
    ret_historical, \* the four ret_*_historical frames
    ret_pick,       \* the kind of the frame taken ("none": ret_pick = {})
    ret_cols,        \* the <kind>_D1 cells the merge leaves in main's row
    \* ---- main: the first-pay-LTV lookback
    ltv_pc,         \* position inside the lookback
    fpltv_historical, \* the first-pay-LTV rows up to selected_date
    ltv_key,        \* platform and agent id of main's row
    need_i,         \* number of entries of need_map the loop has done
    fpltv_cols,     \* the FPLTV_D<n> cells merged into main's row
    ltv_offset,      \* the LTV columns the metric step writes
    \* ---- main: the cost merge
    cost_pc,        \* position inside the cost merge
    cost,           \* the cost frame of selected_date
    cost_main,      \* the cost columns of main's row: column -> cell
    \* ---- main: writing the output
    wr_pc,          \* position inside the last part of main
    main_len,       \* len(main) after the projection on FINAL_COLUMNS
    output_path,    \* the path main was called with, as (base name, extension)
    now,            \* the clock, in seconds
    attempt,        \* the loop variable of the write loop
    final_output_path, \* the path the next attempt writes to
    write_success,  \* set once a write went through
    writer_calls,   \* the calls of pd.ExcelWriter so far and how each ended
    files,          \* the files on disk that the run wrote
    raised,         \* the exception main ended with
    \* ---- main: one retention file next to an agent report
    nd_pc,          \* position inside the run
    nd_path,        \* the retention file's name, as the keywords in it
    nd_fname,       \* the same name, as its parts between underscores
    nd_df,          \* the retention file's table
    nd_agent,       \* register and first-pay counts of the agent report's row
    nd_mode,        \* OFFSET_MODE of the run
    nd_kind,        \* what classify_file_smart made of the file
    nd_ret,         \* the non-empty std_retention results, by kind
    nd_primary,     \* the non-empty extract_primary_firstpay results
    nd_main,        \* main's row: its 一级首充人数 column (line 2260)
    nd_out,         \* the offset-retention columns of the output row
    \* ---- Tail ids of channel names
    tail_pc,        \* position inside the two calls
    ch_name,        \* the channel name, character by character
    tail_id,        \* what extract_agent_id_from_tail returned
    tail_clean,     \* what strip_tail_parenthesis returned
    \* ---- scroll_table_to_end (newplatform_auto_report.py)
    scr_pc,         \* where scroll_table_to_end stands
    max_idle_loops, \* its parameter
    max_scrolls,    \* its parameter
    scroll_index,   \* the loop variable
    last_height,    \* scrollHeight at the step before
    last_row_count, \* row count at the step before
    idle_loops,     \* steps in a row without a change
    page,           \* what the page showed at each step so far
    scr_ret,        \* the value returned
    \* ---- main: the left joins of the merge stage
    mg_pc,          \* the join main has reached
    mg_base,        \* main as it was built from base_keys
    mg_main,        \* the working table
    mg_agent,       \* the agent frame (deduped, of selected_date)
    mg_daily,       \* the daily frame's rows
    mg_primary,     \* the primary first-pay frame
    mg_cost,        \* the cost frame
    mg_platform,    \* the platform frame
    mg_fpltv,       \* fpltv_historical
    mg_ret,         \* the retention frame picked
    mg_out          \* main after the final aggregation

vars_cls == <<cls_pc, path, file, typ, kind, content_read>>

vars_sel == <<sel_pc, file_paths, fpath_i, best_file, best_score, selected,
              selected_files>>

vars_met == <<met_pc, main, OFFSET_MODE, WITHDRAW_APPROX_MODE, ratio,
              metrics>>

vars_std == <<std_pc, df, filename, std_fn, result>>

vars_map == <<name_id_map>>

vars_main == <<main_pc, ops_files, agent_files, file_i, agent_list, agent,
               selected_date, sources, src_i, base_keys, main_id, output>>

vars_pick == <<pick_pc, df_columns, alias_list, picked>>

vars_scn == <<scn_pc, scn_file, scn_agent, scn_main, scn_out>>

vars_ret == <<ret_pc, ret_historical, ret_pick, ret_cols>>

vars_ltv == <<ltv_pc, fpltv_historical, ltv_key, need_i, fpltv_cols,
              ltv_offset>>

vars_cost == <<cost_pc, cost, cost_main>>

vars_wr == <<wr_pc, main_len, output_path, now, attempt, final_output_path,
             write_success, writer_calls, files, raised>>

vars_nd == <<nd_pc, nd_path, nd_fname, nd_df, nd_agent, nd_mode, nd_kind,
             nd_ret, nd_primary, nd_main, nd_out>>

vars_tail == <<tail_pc, ch_name, tail_id, tail_clean>>

vars_scr == <<scr_pc, max_idle_loops, max_scrolls, scroll_index, last_height,
              last_row_count, idle_loops, page, scr_ret>>

vars_mg == <<mg_pc, mg_base, mg_main, mg_agent, mg_daily, mg_primary, mg_cost,
            mg_platform, mg_fpltv, mg_ret, mg_out>>

vars == <<vars_cls, vars_sel, vars_met, vars_std, vars_map, vars_main,
          vars_pick, vars_scn, vars_ret, vars_ltv, vars_cost, vars_wr,
          vars_nd, vars_tail, vars_scr, vars_mg>>

NA == "NA"

\* The state of the parts of the program a specification does not run.
IdleCls ==
    /\ cls_pc = "idle" /\ path = {} /\ file = NA
    /\ typ = "none" /\ kind = "none" /\ content_read = FALSE

IdleSel ==
    /\ sel_pc = "idle" /\ file_paths = <<>> /\ fpath_i = 0 /\ best_file = 0
    /\ best_score = <<0, 0, 0>> /\ selected = 0 /\ selected_files = <<>>

IdleMet ==
    /\ met_pc = "idle" /\ main = NA /\ OFFSET_MODE = NA
    /\ WITHDRAW_APPROX_MODE = NA /\ ratio = NA /\ metrics = NA

IdleStd ==
    /\ std_pc = "idle" /\ df = NA /\ filename = <<>> /\ std_fn = NA
    /\ result = NA

\* name_id_map = {} : no entry.
EmptyMap == [n \in {} |-> 0]

IdleMap == name_id_map = EmptyMap

IdleMain ==
    /\ main_pc = "idle" /\ ops_files = <<>> /\ agent_files = <<>>
    /\ file_i = 0 /\ agent_list = <<>> /\ agent = NA /\ selected_date = NA
    /\ sources = <<>> /\ src_i = 0 /\ base_keys = NA /\ main_id = NA
    /\ output = NA

IdlePick ==
    /\ pick_pc = "idle" /\ df_columns = <<>> /\ alias_list = <<>> /\ picked = NA

IdleScn ==
    /\ scn_pc = "idle" /\ scn_file = NA /\ scn_agent = NA /\ scn_main = NA
    /\ scn_out = NA

IdleRet ==
    /\ ret_pc = "idle" /\ ret_historical = NA /\ ret_pick = NA /\ ret_cols = NA

IdleLtv ==
    /\ ltv_pc = "idle" /\ fpltv_historical = NA /\ ltv_key = NA /\ need_i = 0
    /\ fpltv_cols = NA /\ ltv_offset = NA

IdleCost ==
    /\ cost_pc = "idle" /\ cost = NA /\ cost_main = NA

IdleWr ==
    /\ wr_pc = "idle" /\ main_len = 0
    /\ output_path = NA /\ now = 0 /\ attempt = 0
    /\ final_output_path = NA /\ write_success = FALSE
    /\ writer_calls = <<>> /\ files = {} /\ raised = NA

IdleNd ==
    /\ nd_pc = "idle" /\ nd_path = {} /\ nd_fname = <<>> /\ nd_df = NA
    /\ nd_agent = NA /\ nd_mode = NA /\ nd_kind = NA /\ nd_ret = NA
    /\ nd_primary = <<>> /\ nd_main = NA /\ nd_out = NA

IdleTail ==
    /\ tail_pc = "idle" /\ ch_name = <<>> /\ tail_id = {} /\ tail_clean = <<>>

IdleScr ==
    /\ scr_pc = "idle" /\ max_idle_loops = 0 /\ max_scrolls = 0
    /\ scroll_index = 0 /\ last_height = 0 /\ last_row_count = 0
    /\ idle_loops = 0 /\ page = <<>> /\ scr_ret = {}

IdleMg ==
    /\ mg_pc = "idle" /\ mg_base = <<>> /\ mg_main = <<>> /\ mg_agent = <<>>
    /\ mg_daily = <<>> /\ mg_primary = <<>> /\ mg_cost = <<>>
    /\ mg_platform = NA /\ mg_fpltv = NA /\ mg_ret = NA /\ mg_out = <<>>

\* What each part leaves alone: the variables of all the others.
other_than_cls ==
    <<vars_sel, vars_met, vars_std, vars_map, vars_main, vars_pick, vars_scn,
      vars_ret, vars_ltv, vars_cost, vars_wr, vars_nd, vars_tail, vars_scr,
      vars_mg>>
other_than_sel ==
    <<vars_cls, vars_met, vars_std, vars_map, vars_main, vars_pick, vars_scn,
      vars_ret, vars_ltv, vars_cost, vars_wr, vars_nd, vars_tail, vars_scr,
      vars_mg>>
other_than_met ==
    <<vars_cls, vars_sel, vars_std, vars_map, vars_main, vars_pick, vars_scn,
      vars_ret, vars_ltv, vars_cost, vars_wr, vars_nd, vars_tail, vars_scr,
      vars_mg>>
other_than_std ==
    <<vars_cls, vars_sel, vars_met, vars_map, vars_main, vars_pick, vars_scn,
      vars_ret, vars_ltv, vars_cost, vars_wr, vars_nd, vars_tail, vars_scr,
      vars_mg>>
other_than_main ==
    <<vars_cls, vars_sel, vars_met, vars_std, vars_pick, vars_scn, vars_ret,
      vars_ltv, vars_cost, vars_wr, vars_nd, vars_tail, vars_scr, vars_mg>>
other_than_ret ==
    <<vars_cls, vars_sel, vars_met, vars_std, vars_map, vars_main, vars_pick,
      vars_scn, vars_ltv, vars_cost, vars_wr, vars_nd, vars_tail, vars_scr,
      vars_mg>>
other_than_scn ==
    <<vars_cls, vars_sel, vars_met, vars_std, vars_map, vars_main, vars_pick,
      vars_ret, vars_ltv, vars_cost, vars_wr, vars_nd, vars_tail, vars_scr,
      vars_mg>>
other_than_pick ==
    <<vars_cls, vars_sel, vars_met, vars_std, vars_map, vars_main, vars_scn,
      vars_ret, vars_ltv, vars_cost, vars_wr, vars_nd, vars_tail, vars_scr,
      vars_mg>>
other_than_ltv ==
    <<vars_cls, vars_sel, vars_met, vars_std, vars_map, vars_main, vars_pick,
      vars_scn, vars_ret, vars_cost, vars_wr, vars_nd, vars_tail, vars_scr,
      vars_mg>>
other_than_cost ==
    <<vars_cls, vars_sel, vars_met, vars_std, vars_map, vars_main, vars_pick,
      vars_scn, vars_ret, vars_ltv, vars_wr, vars_nd, vars_tail, vars_scr,
      vars_mg>>
other_than_wr ==
    <<vars_cls, vars_sel, vars_met, vars_std, vars_map, vars_main, vars_pick,
      vars_scn, vars_ret, vars_ltv, vars_cost, vars_nd, vars_tail, vars_scr,
      vars_mg>>
other_than_nd ==
    <<vars_cls, vars_sel, vars_met, vars_std, vars_map, vars_main, vars_pick,
      vars_scn, vars_ret, vars_ltv, vars_cost, vars_wr, vars_tail, vars_scr,
      vars_mg>>
other_than_tail ==
    <<vars_cls, vars_sel, vars_met, vars_std, vars_map, vars_main, vars_pick,
      vars_scn, vars_ret, vars_ltv, vars_cost, vars_wr, vars_nd, vars_scr,
      vars_mg>>
other_than_scr ==
    <<vars_cls, vars_sel, vars_met, vars_std, vars_map, vars_main, vars_pick,
      vars_scn, vars_ret, vars_ltv, vars_cost, vars_wr, vars_nd, vars_tail,
      vars_mg>>
other_than_mg ==
    <<vars_cls, vars_sel, vars_met, vars_std, vars_map, vars_main, vars_pick,
      vars_scn, vars_ret, vars_ltv, vars_cost, vars_wr, vars_nd, vars_tail,
      vars_scr>>

(***************************************************************************)
(* Source classifier                                                       *)
(***************************************************************************)

\* Bounds of the classifier's inputs.
MaxNameParts == 2
MaxHeaders == 2

\* Pieces a file name is built from.  Aliases:
\*   zh_dailibaobiao                   代理报表
\*   zh_shouchongyonghu_denglu_liucun  首充用户登录留存
\*   zh_zhuce_liucun                   注册留存
\*   zh_fufei_liucun                   付费留存
\*   zh_xiazhu_liucun                  下注留存
\*   zh_yuzhi_yingshoubiao             阈值营收表
NameParts ==
    {"TT", "2025", "operation_export", "Agent_Report", "zh_dailibaobiao",
     "platform_report", "user_daily_export", "first_paid_ltv", "ltv",
     "user_retention_first_login", "zh_shouchongyonghu_denglu_liucun",
     "user_retention_register_user", "zh_zhuce_liucun",
     "user_retention_first_pay", "zh_fufei_liucun",
     "user_retention_first_play", "zh_xiazhu_liucun",
     "zh_yuzhi_yingshoubiao", "cost", "uploads"}

\* The keywords of classify_file that occur as a substring of the lower-cased
\* piece p (Python's  kw in name.lower()).  Further aliases:
\*   zh_denglu_liucun  登录留存      zh_yuzhi  阈值
NameKeywordsIn(p) ==
    CASE p = "TT" -> {}
      [] p = "2025" -> {}
      [] p = "operation_export" -> {"operation_export"}
      [] p = "Agent_Report" -> {"agent_report"}
      [] p = "zh_dailibaobiao" -> {"zh_dailibaobiao"}
      [] p = "platform_report" -> {"platform_report"}
      [] p = "user_daily_export" -> {"user_daily_export"}
      [] p = "first_paid_ltv" -> {"first_paid_ltv", "ltv"}
      [] p = "ltv" -> {"ltv"}
      [] p = "user_retention_first_login" -> {"user_retention_first_login"}
      [] p = "zh_shouchongyonghu_denglu_liucun" ->
             {"zh_shouchongyonghu_denglu_liucun", "zh_denglu_liucun"}
      [] p = "user_retention_register_user" -> {"user_retention_register_user"}
      [] p = "zh_zhuce_liucun" -> {"zh_zhuce_liucun"}
      [] p = "user_retention_first_pay" -> {"user_retention_first_pay"}
      [] p = "zh_fufei_liucun" -> {"zh_fufei_liucun"}
      [] p = "user_retention_first_play" -> {"user_retention_first_play"}
      [] p = "zh_xiazhu_liucun" -> {"zh_xiazhu_liucun"}
      [] p = "zh_yuzhi_yingshoubiao" -> {"zh_yuzhi_yingshoubiao", "zh_yuzhi"}
      [] p = "cost" -> {"cost"}
      [] p = "uploads" -> {"ads"}
      [] OTHER -> {}

\* kw in os.path.basename(path).lower()
in_name(kw, name) == \E p \in name : kw \in NameKeywordsIn(p)

\* A mutation of classify_file: the cost test is made before the LTV test.
classify_file_cost_first(name) ==
    IF in_name("operation_export", name) THEN "ops"
    ELSE IF in_name("agent_report", name) \/ in_name("zh_dailibaobiao", name)
         THEN "agent"
    ELSE IF in_name("platform_report", name) THEN "platform"
    ELSE IF in_name("user_daily_export", name) THEN "daily"
    ELSE IF \/ in_name("zh_yuzhi_yingshoubiao", name) \/ in_name("zh_yuzhi", name)
            \/ in_name("cost", name) \/ in_name("ads", name)
         THEN "cost"
    ELSE IF in_name("first_paid_ltv", name) \/ in_name("ltv", name) THEN "fpltv"
    ELSE IF \/ in_name("user_retention_first_login", name)
            \/ in_name("zh_shouchongyonghu_denglu_liucun", name)
            \/ in_name("zh_denglu_liucun", name)
         THEN "ret_login"
    ELSE IF \/ in_name("user_retention_register_user", name)
            \/ in_name("zh_zhuce_liucun", name)
         THEN "ret_register"
    ELSE IF \/ in_name("user_retention_first_pay", name)
            \/ in_name("zh_shouchongyonghu_fufei_liucun", name)
            \/ in_name("zh_fufei_liucun", name)
         THEN "ret_fpay"
    ELSE IF \/ in_name("user_retention_first_play", name)
            \/ in_name("zh_shouchongyonghu_xiazhu_liucun", name)
            \/ in_name("zh_xiazhu_liucun", name)
         THEN "ret_play"
    ELSE "unknown"

\* classify_file: the first test of the chain that succeeds decides.
classify_file(name) ==
    IF in_name("operation_export", name) THEN "ops"
    ELSE IF in_name("agent_report", name) \/ in_name("zh_dailibaobiao", name)
         THEN "agent"
    ELSE IF in_name("platform_report", name) THEN "platform"
    ELSE IF in_name("user_daily_export", name) THEN "daily"
    ELSE IF in_name("first_paid_ltv", name) \/ in_name("ltv", name) THEN "fpltv"
    ELSE IF \/ in_name("user_retention_first_login", name)
            \/ in_name("zh_shouchongyonghu_denglu_liucun", name)
            \/ in_name("zh_denglu_liucun", name)
         THEN "ret_login"
    ELSE IF \/ in_name("user_retention_register_user", name)
            \/ in_name("zh_zhuce_liucun", name)
         THEN "ret_register"
    ELSE IF \/ in_name("user_retention_first_pay", name)
            \/ in_name("zh_shouchongyonghu_fufei_liucun", name)
            \/ in_name("zh_fufei_liucun", name)
         THEN "ret_fpay"
    ELSE IF \/ in_name("user_retention_first_play", name)
            \/ in_name("zh_shouchongyonghu_xiazhu_liucun", name)
            \/ in_name("zh_xiazhu_liucun", name)
         THEN "ret_play"
    ELSE IF \/ in_name("zh_yuzhi_yingshoubiao", name) \/ in_name("zh_yuzhi", name)
            \/ in_name("cost", name) \/ in_name("ads", name)
         THEN "cost"
    ELSE "unknown"

\* Column headers a file may carry.  Aliases:
\*   zh_riqi 日期            zh_qudao_mingcheng 渠道名称   zh_zhuce_renshu 注册人数
\*   zh_chongzhi_jine 充值金额  zh_shouchong_renshu 首充人数  zh_2ri_liucun 2日留存
\*   zh_xiazhu_renshu 下注人数  zh_denglu_renshu 登录人数     zh_xiaohao 消耗
\*   zh_beizhu 备注
Headers ==
    {"zh_riqi", "zh_qudao_mingcheng", "zh_zhuce_renshu", "zh_chongzhi_jine",
     "zh_shouchong_renshu", "FPLTV_D1", "LTV(D7)", "D30", "zh_2ri_liucun",
     "zh_xiazhu_renshu", "zh_denglu_renshu", "register", "zh_xiaohao",
     "zh_beizhu"}

\* The keywords of classify_file_smart that occur as a substring of header h.
\* Further aliases:
\*   zh_qudao 渠道   zh_zongdai 总代   zh_daili 代理   zh_zongdai_mingcheng 总代名称
\*   zh_zhuce 注册   zh_xinzeng_zhuce 新增注册   zh_huoyue 活跃   zh_chongzhi 充值
\*   zh_fufei 付费   zh_chongzhi_renshu 充值人数   zh_shouchong_LTV 首充LTV
\*   zh_shouchong_ltv 首充ltv   zh_liucun 留存   zh_xiazhu 下注   zh_touzhu 投注
\*   zh_shouchong 首充   zh_shoudeng 首登   zh_denglu 登录   zh_zhanshi 展示
\*   zh_dianji 点击   zh_shouchong_jine 首充金额
HeaderKeywordsIn(h) ==
    CASE h = "zh_riqi" -> {}
      [] h = "zh_qudao_mingcheng" -> {"zh_qudao"}
      [] h = "zh_zhuce_renshu" -> {"zh_zhuce"}
      [] h = "zh_chongzhi_jine" -> {"zh_chongzhi", "zh_chongzhi_jine"}
      [] h = "zh_shouchong_renshu" -> {"zh_shouchong", "zh_shouchong_renshu"}
      [] h = "FPLTV_D1" -> {"FPLTV", "D1"}
      [] h = "LTV(D7)" -> {"LTV(D", "D7"}
      [] h = "D30" -> {"D3", "D30"}
      [] h = "zh_2ri_liucun" -> {"zh_liucun"}
      [] h = "zh_xiazhu_renshu" -> {"zh_xiazhu"}
      [] h = "zh_denglu_renshu" -> {"zh_denglu"}
      [] h = "register" -> {"register"}
      [] h = "zh_xiaohao" -> {"zh_xiaohao"}
      [] h = "zh_beizhu" -> {}
      [] OTHER -> {}

\* any(keyword in cols_str for keyword in kws), cols_str the joined headers
any_in_cols(kws, cols) == \E h \in cols : kws \cap HeaderKeywordsIn(h) # {}

\* pd.DataFrame.empty of what read_any_table returns: an unreadable file gives
\* an empty frame, and so does a table without rows or without columns.
df_empty(f) == ~f.readable \/ f.nrows = 0 \/ f.columns = {}

\* classify_file_smart, step 2: the kind read off the headers.
classify_by_content(f) ==
    IF df_empty(f) THEN "unknown"
    ELSE LET cols == f.columns
             has_channel  == any_in_cols({"zh_qudao", "zh_zongdai", "zh_daili",
                                 "agent", "channel", "zh_zongdai_mingcheng"}, cols)
             has_register == any_in_cols({"zh_zhuce", "register",
                                          "zh_xinzeng_zhuce"}, cols)
             has_active   == any_in_cols({"zh_huoyue", "active"}, cols)
             has_pay      == any_in_cols({"zh_chongzhi", "zh_fufei", "pay",
                                 "zh_chongzhi_renshu", "zh_chongzhi_jine"}, cols)
         IN
         IF has_channel /\ (has_register \/ has_active \/ has_pay) THEN "agent"
         ELSE IF any_in_cols({"FPLTV", "zh_shouchong_LTV", "zh_shouchong_ltv"}, cols)
              THEN "fpltv"
         ELSE IF any_in_cols({"ltv_d1", "ltv_d3", "ltv_d7", "LTV(D"}, cols)
              THEN "platform"
         ELSE IF any_in_cols({"zh_liucun", "retention", "D1", "D3", "D7", "D14",
                              "D30"}, cols)
              THEN IF any_in_cols({"zh_xiazhu", "zh_touzhu", "first_play", "play"},
                                  cols)
                   THEN "ret_play"
                   ELSE IF /\ any_in_cols({"zh_shouchong", "first_pay"}, cols)
                           /\ any_in_cols({"zh_fufei", "zh_chongzhi"}, cols)
                        THEN "ret_fpay"
                   ELSE IF any_in_cols({"zh_shoudeng", "zh_denglu", "first_login",
                                        "login"}, cols)
                        THEN "ret_login"
                   ELSE "ret_register"
         ELSE IF any_in_cols({"zh_xiaohao", "zh_zhanshi", "zh_dianji", "spend",
                              "cost", "impression", "click"}, cols)
              THEN "cost"
         ELSE IF any_in_cols({"zh_shouchong_renshu", "zh_shouchong_jine",
                              "firstpay"}, cols)
              THEN "daily"
         ELSE "unknown"

SmallSubsets(S, n) == {T \in SUBSET S : Cardinality(T) <= n}

FileNames == SmallSubsets(NameParts, MaxNameParts) \ {{}}

FileContents ==
    {[readable |-> FALSE, nrows |-> 0, columns |-> {}]}
    \cup {[readable |-> TRUE, nrows |-> n, columns |-> c] :
              n \in 0..1, c \in SmallSubsets(Headers, MaxHeaders)}

InitCls ==
    /\ IdleSel /\ IdleMet /\ IdleStd /\ IdleMap /\ IdleMain
    /\ IdleRet /\ IdleScn /\ IdlePick
    /\ IdleLtv
    /\ IdleCost
    /\ IdleWr
    /\ IdleNd
    /\ IdleTail
    /\ IdleScr
    /\ IdleMg
    /\ cls_pc = "start"
    /\ path \in FileNames
    /\ file \in FileContents
    /\ typ = "none"
    /\ kind = "none"
    /\ content_read = FALSE

\* classify_file_smart, step 1: typ = classify_file(path); a known kind returns.
ClassifyByName ==
    /\ cls_pc = "start"
    /\ typ' = classify_file(path)
    /\ IF typ' # "unknown"
       THEN kind' = typ' /\ cls_pc' = "done"
       ELSE kind' = kind /\ cls_pc' = "content"
    /\ UNCHANGED <<path, file, content_read, other_than_cls>>

\* classify_file_smart, step 2: df = read_any_table(path) and the header rules.
ClassifyByContent ==
    /\ cls_pc = "content"
    /\ content_read' = TRUE
    /\ kind' = classify_by_content(file)
    /\ cls_pc' = "done"
    /\ UNCHANGED <<path, file, typ, other_than_cls>>

NextCls == ClassifyByName \/ ClassifyByContent

SpecClassify == InitCls /\ [][NextCls]_vars

\* The kinds in the order the claim gives them, each with its file-name keywords.
KindOrder ==
    <<"ops", "agent", "platform", "daily", "fpltv",
      "ret_login", "ret_register", "ret_fpay", "ret_play", "cost">>

KindKeywords(k) ==
    CASE k = "ops" -> {"operation_export"}
      [] k = "agent" -> {"agent_report", "zh_dailibaobiao"}
      [] k = "platform" -> {"platform_report"}
      [] k = "daily" -> {"user_daily_export"}
      [] k = "fpltv" -> {"first_paid_ltv", "ltv"}
      [] k = "ret_login" -> {"user_retention_first_login",
                             "zh_shouchongyonghu_denglu_liucun", "zh_denglu_liucun"}
      [] k = "ret_register" -> {"user_retention_register_user", "zh_zhuce_liucun"}
      [] k = "ret_fpay" -> {"user_retention_first_pay",
                            "zh_shouchongyonghu_fufei_liucun", "zh_fufei_liucun"}
      [] k = "ret_play" -> {"user_retention_first_play",
                            "zh_shouchongyonghu_xiazhu_liucun", "zh_xiazhu_liucun"}
      [] k = "cost" -> {"zh_yuzhi_yingshoubiao", "zh_yuzhi", "cost", "ads"}

KindMatches(k, name) == \E kw \in KindKeywords(k) : in_name(kw, name)

FirstMatchingKind(name) ==
    LET hits == {i \in 1..Len(KindOrder) : KindMatches(KindOrder[i], name)}
    IN IF hits = {} THEN "unknown"
       ELSE KindOrder[CHOOSE i \in hits : \A j \in hits : i <= j]

\* C10: classify_file answers the first kind, in the order ops, agent, platform,
\* daily, first-pay-LTV, the retention kinds, cost, one of whose keywords the
\* file name holds ("unknown" when none does); classify_file_smart returns that
\* answer whenever it is not "unknown", and reads the file's headers only when
\* the name matched no kind.
C10_FirstMatchWins ==
    /\ typ # "none" => typ = FirstMatchingKind(path)
    /\ (kind # "none" /\ typ # "unknown") => (kind = typ /\ ~content_read)
    /\ content_read => typ = "unknown"

\* C10 witness: a name holding a cost keyword and an LTV keyword was classified
\* by its name, as first-pay-LTV.
C10_Witness ==
    /\ cls_pc = "done"
    /\ in_name("cost", path) /\ in_name("ltv", path)
    /\ kind = "fpltv"

(***************************************************************************)
(* Best-file selector                                                      *)
(***************************************************************************)

\* Bounds of the selector's inputs.
MaxCandidates == 2
MaxRows == 3

\* The calendar days a date cell may hold, as day numbers.
Days == {1, 4, 11}

\* A candidate file, by what the selector reads of it: whether read_any_table
\* can read it, whether pick_col finds a date column, the distinct days that
\* pd.to_datetime(..., errors='coerce').dropna() leaves, and len(df).
Candidates ==
    {[readable |-> FALSE, date_col |-> FALSE, dates |-> {}, row_count |-> 0]}
    \cup {[readable |-> TRUE, date_col |-> FALSE, dates |-> {}, row_count |-> n] :
              n \in 0..MaxRows}
    \cup {c \in [readable : {TRUE}, date_col : {TRUE}, dates : SUBSET Days,
                 row_count : 0..MaxRows] : Cardinality(c.dates) <= c.row_count}

SetMin(S) == CHOOSE x \in S : \A y \in S : x <= y
SetMax(S) == CHOOSE x \in S : \A y \in S : x >= y

\* A mutation of current_score: the row count is compared first.
current_score_rows_first(c) ==
    <<c.row_count, SetMax(c.dates) - SetMin(c.dates), SetMax(c.dates)>>

\* current_score = (date_span, max_date, row_count)
current_score(c) ==
    <<SetMax(c.dates) - SetMin(c.dates), SetMax(c.dates), c.row_count>>

\* Python's tuple comparison a > b on triples.
tuple_gt(a, b) ==
    \/ a[1] > b[1]
    \/ a[1] = b[1] /\ a[2] > b[2]
    \/ a[1] = b[1] /\ a[2] = b[2] /\ a[3] > b[3]

\* The loop body's three "continue" tests: df.empty, no date column, no date
\* that parses.
skipped(c) ==
    \/ ~c.readable \/ c.row_count = 0
    \/ ~c.date_col
    \/ c.dates = {}

InitSel ==
    /\ IdleCls /\ IdleMet /\ IdleStd /\ IdleMap /\ IdleMain
    /\ IdleRet /\ IdleScn /\ IdlePick
    /\ IdleLtv
    /\ IdleCost
    /\ IdleWr
    /\ IdleNd
    /\ IdleTail
    /\ IdleScr
    /\ IdleMg
    /\ sel_pc = "call"
    /\ file_paths \in UNION {[1..n -> Candidates] : n \in 0..MaxCandidates}
    /\ fpath_i = 0
    /\ best_file = 0
    /\ best_score = <<-1, NA, -1>>
    /\ selected = 0
    /\ selected_files = <<>>

\* main: "if file_groups[typ]:" is false; selected_files[typ] = [].
NoCandidates ==
    /\ sel_pc = "call"
    /\ file_paths = <<>>
    /\ sel_pc' = "stored"
    /\ selected_files' = <<>>
    /\ UNCHANGED <<file_paths, fpath_i, best_file, best_score, selected, other_than_sel>>

\* select_best_file_by_date_range: a single candidate is returned as it is.
SelectSingle ==
    /\ sel_pc = "call"
    /\ Len(file_paths) = 1
    /\ selected' = 1
    /\ sel_pc' = "returned"
    /\ UNCHANGED <<file_paths, fpath_i, best_file, best_score, selected_files,
                   other_than_sel>>

\* select_best_file_by_date_range: two or more candidates enter the loop.
SelectEnterLoop ==
    /\ sel_pc = "call"
    /\ Len(file_paths) >= 2
    /\ fpath_i' = 1
    /\ sel_pc' = "loop"
    /\ UNCHANGED <<file_paths, best_file, best_score, selected, selected_files,
                   other_than_sel>>

\* One iteration of "for fpath in file_paths".
SelectIterate ==
    /\ sel_pc = "loop"
    /\ fpath_i <= Len(file_paths)
    /\ LET c == file_paths[fpath_i] IN
       IF ~skipped(c) /\ tuple_gt(current_score(c), best_score)
       THEN best_score' = current_score(c) /\ best_file' = fpath_i
       ELSE UNCHANGED <<best_score, best_file>>
    /\ fpath_i' = fpath_i + 1
    /\ UNCHANGED <<sel_pc, file_paths, selected, selected_files, other_than_sel>>

\* After the loop: return best_file.
SelectReturn ==
    /\ sel_pc = "loop"
    /\ fpath_i > Len(file_paths)
    /\ selected' = best_file
    /\ sel_pc' = "returned"
    /\ UNCHANGED <<file_paths, fpath_i, best_file, best_score, selected_files,
                   other_than_sel>>

\* main: selected_files[typ] = [best_file] if best_file else [].
StoreSelected ==
    /\ sel_pc = "returned"
    /\ selected_files' = IF selected # 0 THEN <<selected>> ELSE <<>>
    /\ sel_pc' = "stored"
    /\ UNCHANGED <<file_paths, fpath_i, best_file, best_score, selected, other_than_sel>>

NextSel ==
    \/ NoCandidates
    \/ SelectSingle
    \/ SelectEnterLoop
    \/ SelectIterate
    \/ SelectReturn
    \/ StoreSelected

SpecSelect == InitSel /\ [][NextSel]_vars

\* A candidate the claims call valid: readable, not empty, with a date column
\* holding at least one date.
ValidCandidate(c) ==
    c.readable /\ c.row_count > 0 /\ c.date_col /\ c.dates # {}

ValidIndexes == {i \in 1..Len(file_paths) : ValidCandidate(file_paths[i])}

\* (span, max date, row count) of a valid candidate, and the order on triples.
ScoreOf(c) ==
    [span |-> SetMax(c.dates) - SetMin(c.dates), last |-> SetMax(c.dates),
     n |-> c.row_count]

LexGeq(a, b) ==
    \/ a.span > b.span
    \/ a.span = b.span /\ a.last > b.last
    \/ a.span = b.span /\ a.last = b.last /\ a.n >= b.n

\* C8: with two or more valid candidates the selector returns a valid candidate
\* whose (date span, max date, row count) is lexicographically greatest.
C8_GreatestTupleSelected ==
    (sel_pc \in {"returned", "stored"} /\ Cardinality(ValidIndexes) >= 2) =>
        /\ selected \in ValidIndexes
        /\ \A j \in ValidIndexes :
               LexGeq(ScoreOf(file_paths[selected]), ScoreOf(file_paths[j]))

\* C8 witness: a candidate spanning 10 days was returned although another
\* valid candidate with a shorter span has more rows.
C8_Witness ==
    /\ sel_pc = "returned"
    /\ selected \in ValidIndexes
    /\ ScoreOf(file_paths[selected]).span = 10
    /\ \E j \in ValidIndexes :
           /\ ScoreOf(file_paths[j]).span < 10
           /\ file_paths[j].row_count > file_paths[selected].row_count

\* C9 (as claimed): a candidate that cannot be read, is empty or has no date
\* column is never the selected file, also when it is the only candidate, and
\* at most one file of the kind goes on to standardization.
C9_InvalidNeverSelected ==
    /\ (sel_pc \in {"returned", "stored"} /\ selected # 0) =>
           LET c == file_paths[selected]
           IN c.readable /\ c.row_count > 0 /\ c.date_col
    /\ Len(selected_files) <= 1
    /\ \A k \in 1..Len(selected_files) :
           LET c == file_paths[selected_files[k]]
           IN c.readable /\ c.row_count > 0 /\ c.date_col

(***************************************************************************)
(* Metric calculation (main, step 5)                                       *)
(***************************************************************************)

\* The frame main holds one merged row (one date, one key).  A cell is the
\* set of its values: {} is a missing cell (NaN / absent column), {v} a
\* number.  Column aliases:
\*   register 注册人数    active 活跃人数      pay_users 充值人数
\*   pay_amount 充值金额  firstpay_a 当日首充金额  firstpay_u 首充人数
\*   impr 展示            click 点击           spend 消耗
\*   withdraw 提现金额    primary_u 一级首充人数
MaxOddCells == 1

NumCols ==
    {"register", "active", "pay_users", "pay_amount", "firstpay_a",
     "firstpay_u", "impr", "click", "spend", "withdraw", "primary_u"}

\* The row of an ordinary day, and the cells that replace up to MaxOddCells
\* of its values: missing, zero, negative.
Typical ==
    [register |-> 100, active |-> 80, pay_users |-> 40, pay_amount |-> 500,
     firstpay_a |-> 200, firstpay_u |-> 20, impr |-> 2000, click |-> 100,
     spend |-> 1000, withdraw |-> 50, primary_u |-> 5]

OddCells == {{}, {0}, {-3}}

NumRows ==
    UNION {{[c \in NumCols |-> IF c \in S THEN o[c] ELSE {Typical[c]}] :
                o \in [S -> OddCells]} :
           S \in SmallSubsets(NumCols, MaxOddCells)}

\* FPLTV_D<n> columns left by the FPLTV merge: none, all horizons, D15
\* missing, D15 zero.
LtvDays == {1, 2, 3, 7, 14, 15, 30}

LtvFull == [d \in LtvDays |-> {d + 4}]

LtvProfiles ==
    {[d \in LtvDays |-> {}],
     LtvFull,
     [LtvFull EXCEPT ![15] = {}],
     [LtvFull EXCEPT ![15] = {0}]}

\* <prefix>_D<n> columns left by the retention merge: the columns of the one
\* retention kind that ret_pick took (or none), D15 missing in the table.
RetDays == {1, 3, 7, 15, 30}
RetPrefixes == {"ret_login", "ret_play", "ret_fpay"}
RetKinds == RetPrefixes \cup {"ret_register", "none"}

RetPct == [d \in RetDays |-> IF d = 15 THEN {} ELSE {60 - d}]

RetFrame(k) ==
    [c \in RetPrefixes \X RetDays |-> IF c[1] = k THEN RetPct[c[2]] ELSE {}]

\* Exact quotients: n / d with d > 0.
Frac(n, d) == [n |-> n, d |-> d]
Zero == Frac(0, 1)
int_div(a, b) == IF b > 0 THEN Frac(a, b) ELSE Frac(-a, -b)
frac_mul(f, g) == Frac(f.n * g.n, f.d * g.d)
frac_sub(f, g) == Frac(f.n * g.d - g.n * f.d, f.d * g.d)
frac_div(f, g) ==
    IF g.n > 0 THEN Frac(f.n * g.d, f.d * g.n)
               ELSE Frac(-(f.n * g.d), -(f.d * g.n))

\* num(col, 0): to_numeric(...).fillna(0), 0 for an absent column.
num(cell) == IF cell = {} THEN 0 ELSE CHOOSE v \in cell : TRUE

max0(i) == IF i > 0 THEN i ELSE 0

InitMet ==
    /\ IdleCls /\ IdleSel /\ IdleStd /\ IdleMap /\ IdleMain
    /\ IdleRet /\ IdleScn /\ IdlePick
    /\ IdleLtv
    /\ IdleCost
    /\ IdleWr
    /\ IdleNd
    /\ IdleTail
    /\ IdleScr
    /\ IdleMg
    /\ met_pc = "merged"
    /\ main \in [num : NumRows, fpltv : LtvProfiles,
                 ret : {RetFrame(k) : k \in RetKinds}]
    /\ OFFSET_MODE \in {"formula", "retention"}
    /\ WITHDRAW_APPROX_MODE \in {"scale", "zero"}
    /\ ratio = NA
    /\ metrics = NA

\* Lines 2235-2288: the numeric columns, net deposit, and the ratios of the
\* day.  Aliases of the columns written:
\*   net 充提差            cpm 千展成本crm       ctr 点击率
\*   cost_register 注册成本   cost_firstpay 首充成本   cost_primary 一级首充成本
\*   firstpay_conv 首充转化率   arppu 首充arppu   roas 首充roas
\*   ltv_d1 首充当日ltv    fp_net 首充当日充提差   roi 首充当日roi
\*   net_ratio 首充充提差比
derived(m, withdraw_mode) ==
    LET reg == num(m.num["register"])
        act == num(m.num["active"])
        pu == num(m.num["pay_users"])
        pa == num(m.num["pay_amount"])
        fpa == num(m.num["firstpay_a"])
        fpu == num(m.num["firstpay_u"])
        impr == num(m.num["impr"])
        click == num(m.num["click"])
        spend == num(m.num["spend"])
        wd == num(m.num["withdraw"])
        prim == num(m.num["primary_u"])
        withdraw_ratio == IF pu > 0 THEN int_div(fpu, pu) ELSE Zero
        estimated_fpay_withdraw == frac_mul(Frac(wd, 1), withdraw_ratio)
        fp_net == IF withdraw_mode = "scale"
                  THEN frac_sub(Frac(fpa, 1), estimated_fpay_withdraw)
                  ELSE Frac(fpa, 1)
    IN  [register |-> reg, active |-> act, pay_users |-> pu,
         pay_amount |-> pa, firstpay_a |-> fpa, firstpay_u |-> fpu,
         impr |-> impr, click |-> click, spend |-> spend, withdraw |-> wd,
         primary_u |-> prim,
         net |-> pa - wd,
         cpm |-> IF impr > 0 THEN int_div(spend * 1000, impr) ELSE Zero,
         ctr |-> IF impr > 0 THEN int_div(click, impr) ELSE Zero,
         cost_register |-> IF reg > 0 THEN int_div(spend, reg) ELSE Zero,
         cost_firstpay |-> IF fpu > 0 THEN int_div(spend, fpu) ELSE Zero,
         cost_primary |-> IF prim > 0 THEN int_div(spend, prim) ELSE Zero,
         firstpay_conv |-> IF reg > 0 THEN int_div(fpu, reg) ELSE Zero,
         arppu |-> IF fpu > 0 THEN int_div(fpa, fpu) ELSE Zero,
         roas |-> IF spend > 0 THEN int_div(fpa, spend) ELSE Zero,
         ltv_d1 |-> num(m.fpltv[1]),
         fp_net |-> fp_net,
         roi |-> IF spend > 0 THEN frac_div(fp_net, Frac(spend, 1)) ELSE Zero,
         net_ratio |-> IF fpa > 0 THEN frac_div(fp_net, Frac(fpa, 1))
                                  ELSE Zero]

ComputeDerived ==
    /\ met_pc = "merged"
    /\ metrics' = derived(main, WITHDRAW_APPROX_MODE)
    /\ met_pc' = "derived"
    /\ UNCHANGED <<main, OFFSET_MODE, WITHDRAW_APPROX_MODE, ratio,
                   other_than_met>>

\* The offset LTV columns without the 14-day fallback.
offset_ltv_no_fallback(m) ==
    [d \in {2, 3, 7, 15, 30} |-> num(m.fpltv[d])]

\* Lines 2290-2304: the offset LTV columns; the 15-day one takes D15 and,
\* where that is 0, D14.
offset_ltv(m) ==
    [d \in {2, 3, 7, 15, 30} |->
        IF d = 15
        THEN IF num(m.fpltv[15]) # 0 THEN num(m.fpltv[15])
                                     ELSE num(m.fpltv[14])
        ELSE num(m.fpltv[d])]

\* Lines 2311-2313: ratio = (fpu / reg.replace(0, NA)).fillna(0.0).
fpu_reg_ratio(fpu, reg) == IF reg = 0 THEN Zero ELSE int_div(fpu, reg)

\* Lines 2307-2309: _get_ret.
get_ret(m, prefix, day) == num(m.ret[<<prefix, day>>])

\* _apply_offset without the switch: the percentage passed through whatever
\* the mode.
apply_offset_passthrough(series, mode, rt) == Frac(series, 1)

\* Lines 2315-2318: _apply_offset.
apply_offset(series, mode, rt) ==
    IF mode = "formula" THEN frac_mul(Frac(series, 1), rt)
                        ELSE Frac(series, 1)

ComputeOffsets ==
    /\ met_pc = "derived"
    /\ LET rt == fpu_reg_ratio(metrics.firstpay_u, metrics.register)
       IN  /\ ratio' = rt
           /\ metrics' =
                  [ltv_offset |-> offset_ltv(main),
                   ret_offset |->
                       [c \in RetPrefixes \X RetDays |->
                           apply_offset(get_ret(main, c[1], c[2]),
                                        OFFSET_MODE, rt)]] @@ metrics
    /\ met_pc' = "offsets"
    /\ UNCHANGED <<main, OFFSET_MODE, WITHDRAW_APPROX_MODE, other_than_met>>

\* Lines 2341-2359: the running sums of the key's group (one row: the row's
\* own values), cumulative roas, the month's spend, the non-primary counts.
\* Aliases: cum_pay 累计充值金额, cum_spend 累计消耗, cum_roas 累计roas,
\* month_spend 自然月消耗, non_primary_u 非一级首充人数,
\* non_primary_per_firstpay 非一级首充人数/首充人数,
\* non_primary_per_pay 非一级首充人数/充值人数.
cumulative(mt) ==
    LET cum_pay == mt.pay_amount
        cum_spend == mt.spend
        non_primary_u == max0(mt.firstpay_u - mt.primary_u)
    IN  [cum_pay |-> cum_pay, cum_spend |-> cum_spend,
         cum_roas |-> IF cum_spend > 0 THEN int_div(cum_pay, cum_spend)
                                       ELSE Zero,
         month_spend |-> mt.spend,
         non_primary_u |-> non_primary_u,
         non_primary_per_firstpay |->
             IF mt.firstpay_u > 0 THEN int_div(non_primary_u, mt.firstpay_u)
                                  ELSE Zero,
         non_primary_per_pay |->
             IF mt.pay_users > 0 THEN int_div(non_primary_u, mt.pay_users)
                                 ELSE Zero]

ComputeCumulative ==
    /\ met_pc = "offsets"
    /\ metrics' = cumulative(metrics) @@ metrics
    /\ met_pc' = "done"
    /\ UNCHANGED <<main, OFFSET_MODE, WITHDRAW_APPROX_MODE, ratio,
                   other_than_met>>

NextMet == ComputeDerived \/ ComputeOffsets \/ ComputeCumulative

SpecMetric == InitMet /\ [][NextMet]_vars

\* C7 (as claimed): every ratio metric, the first-pay/register ratio of the
\* "formula" offset mode included, is exactly 0 when its denominator is zero
\* or negative.
C7_RatiosZeroOnNonPositiveDenominator ==
    met_pc = "done" =>
        /\ metrics.impr <= 0 => (metrics.cpm.n = 0 /\ metrics.ctr.n = 0)
        /\ metrics.register <= 0 =>
               /\ metrics.cost_register.n = 0
               /\ metrics.firstpay_conv.n = 0
               /\ (OFFSET_MODE = "formula" => ratio.n = 0)
        /\ metrics.firstpay_u <= 0 =>
               /\ metrics.cost_firstpay.n = 0
               /\ metrics.arppu.n = 0
               /\ metrics.non_primary_per_firstpay.n = 0
        /\ metrics.primary_u <= 0 => metrics.cost_primary.n = 0
        /\ metrics.spend <= 0 => (metrics.roas.n = 0 /\ metrics.roi.n = 0)
        /\ metrics.firstpay_a <= 0 => metrics.net_ratio.n = 0
        /\ metrics.cum_spend <= 0 => metrics.cum_roas.n = 0
        /\ metrics.pay_users <= 0 => metrics.non_primary_per_pay.n = 0

\* C16: OFFSET_MODE is one switch for all 15 offset-retention columns
\* (ret_login / ret_play / ret_fpay x days 1, 3, 7, 15, 30).  In mode
\* "retention" every column is the looked-up percentage (0 when the column
\* is absent or blank); in mode "formula" every column is that percentage
\* times first-pay count / register count of the row (0 when the register
\* count is 0).  No state has some columns passed through and others scaled.
C16_OffsetModeIsOneSwitch ==
    met_pc \in {"offsets", "done"} =>
        LET pct(c) == get_ret(main, c[1], c[2])
            col(c) == metrics.ret_offset[c]
        IN  /\ OFFSET_MODE = "retention" =>
                   \A c \in RetPrefixes \X RetDays :
                       col(c).n = pct(c) * col(c).d
            /\ OFFSET_MODE = "formula" =>
                   \A c \in RetPrefixes \X RetDays :
                       IF metrics.register = 0
                       THEN col(c).n = 0
                       ELSE col(c).n * metrics.register =
                                pct(c) * metrics.firstpay_u * col(c).d

\* A row in mode "formula" whose scaled column differs from the percentage,
\* which is not zero.
C16_Witness ==
    /\ met_pc = "done"
    /\ OFFSET_MODE = "formula"
    /\ metrics.register > 0 /\ metrics.firstpay_u > 0
    /\ metrics.firstpay_u # metrics.register
    /\ \E c \in RetPrefixes \X RetDays :
           /\ get_ret(main, c[1], c[2]) > 0
           /\ metrics.ret_offset[c].n # 0
           /\ metrics.ret_offset[c].n #
                  get_ret(main, c[1], c[2]) * metrics.ret_offset[c].d

\* C17: the 15-day offset LTV of the row is its looked-up FPLTV_D15 value when
\* that value is not zero, and its looked-up FPLTV_D14 value (0 when there is
\* none) when FPLTV_D15 is zero, blank or absent.
C17_FifteenDayFallsBackToFourteen ==
    met_pc \in {"offsets", "done"} =>
        LET d15 == main.fpltv[15]
            d14 == main.fpltv[14]
            out == metrics.ltv_offset[15]
        IN  /\ (d15 # {} /\ d15 # {0}) => {out} = d15
            /\ (d15 = {} \/ d15 = {0}) =>
                   IF d14 = {} THEN out = 0 ELSE {out} = d14

\* A row whose 15-day value is exactly zero and whose 14-day value is not:
\* the 15-day offset LTV is the 14-day value.
C17_Witness ==
    /\ met_pc = "done"
    /\ main.fpltv[15] = {0}
    /\ main.fpltv[14] # {} /\ main.fpltv[14] # {0}
    /\ {metrics.ltv_offset[15]} = main.fpltv[14]

(***************************************************************************)
(* Cells, names and file names shared by the standardizers and main        *)
(***************************************************************************)

\* Date cells as they stand in a file.  Alias: zh_summary 数据汇总.
RawDates == {"2025-10-30", "2025/10/29", "zh_summary"}

\* normalize_date: the cell parsed and written as YYYY-MM-DD, None for a
\* blank cell, a summary line or a text that is no date.
normalize_date(v) ==
    CASE v = "2025-10-30" -> "2025-10-30"
      [] v = "2025/10/29" -> "2025-10-29"
      [] v = "2025-10-29" -> "2025-10-29"
      [] OTHER -> NA

\* An agent id (总代号, dtype Int64).  A hash id goes up to 2^32 - 1, past
\* the 32-bit integers of TLC, so every id of a frame is held in two parts:
\* Int64(billions, rest) is the id billions * 10^9 + rest.  (The section on
\* tail ids works on the characters of a name and keeps the plain integer
\* of its digits.)
Int64(billions, rest) == <<billions, rest>>

\* a < b on two ids.
id_lt(a, b) == a[1] < b[1] \/ (a[1] = b[1] /\ a[2] < b[2])

\* Channel display names as they stand in a file.  Alias: Y_fw(7) is Y
\* followed by 7 between full-width parentheses, the digit full-width too.
\* "(55)" is a name that is nothing but its tail.
ChannelNames == {"X(55)", "Y_fw(7)", "Z", "(55)"}

\* A cell of the channel column: a name, or blank (read as NaN).
ChannelCells == ChannelNames \cup {NA}

\* isinstance(name, str)
is_str(name) == name # NA

\* strip_tail_parenthesis: the name without its trailing "(digits)"; the
\* empty string for a cell that is no string.
strip_tail_parenthesis(name) ==
    IF ~is_str(name) THEN ""
    ELSE CASE name = "X(55)" -> "X"
           [] name = "Y_fw(7)" -> "Y"
           [] name = "Z" -> "Z"
           [] name = "(55)" -> ""

\* extract_agent_id_from_tail: the integer of the trailing "(digits)", None
\* (the empty cell) without one or for a cell that is no string.
extract_agent_id_from_tail(name) ==
    IF ~is_str(name) THEN {}
    ELSE CASE name = "X(55)" -> {Int64(0, 55)}
           [] name = "Y_fw(7)" -> {Int64(0, 7)}
           [] name = "(55)" -> {Int64(0, 55)}
           [] OTHER -> {}

\* int(md5(name.encode("utf-8")).hexdigest()[:8], 16), for the cleaned names
\* of ChannelNames: 02129bb8, 57cec413, 21c2e595 and, for the empty string,
\* d41d8cd9.
md5_int(name) ==
    CASE name = "X" -> Int64(0, 34773944)
      [] name = "Y" -> Int64(1, 473168403)
      [] name = "Z" -> Int64(0, 566420885)
      [] name = "" -> Int64(3, 558706393)

\* stable_agent_id: None for a name that is no string or is empty, else the
\* md5 id of the name.
stable_agent_id(name) ==
    IF ~is_str(name) \/ name = "" THEN {} ELSE {md5_int(name)}

\* File names, split at "-".
FileNameParts ==
    {<<"report">>,
     <<"TT", "P1", "BR", "D1", "report", "2025", "10", "30">>,
     <<"TT", "", "BR", "D1", "report", "2025", "10", "30">>}

\* parse_filename(...)["盘口"]: the second part of a name of five parts or
\* more.
parse_filename(parts) == IF Len(parts) >= 5 THEN parts[2] ELSE NA

\* "if file_platform:" : neither None nor the empty string.
truthy(v) == v # NA /\ v # ""

\* name -> id maps main can have built from ops data.
NameIdMaps ==
    {EmptyMap, [n \in {"X"} |-> Int64(0, 55)],
     [n \in {"X", "Y"} |-> IF n = "X" THEN Int64(0, 55) ELSE Int64(0, 7)]}

(***************************************************************************)
(* Per-source standardizers                                                *)
(***************************************************************************)

\* A table is the set of logical columns pick_col resolves in it and its
\* rows; a cell of a column the table lacks holds the filler of NoCell.
\* Numeric metric columns are copied cell by cell by every standardizer and
\* are left out.  Alias: zh_all 全部 (column fission: 裂变类型).
MaxStdRows == 1

Cols == {"date", "channel", "platform", "agent_id", "fission"}

CellValues ==
    [date |-> RawDates, channel |-> ChannelCells, platform |-> {"P1", NA},
     agent_id |-> {{Int64(0, 9)}, {}}, fission |-> {"zh_all", "parent"}]

NoCell == [date |-> NA, channel |-> NA, platform |-> NA, agent_id |-> {},
           fission |-> NA]

RowsOf(cols) ==
    {r \in [date : CellValues.date \cup {NA},
            channel : CellValues.channel \cup {NA},
            platform : CellValues.platform,
            agent_id : CellValues.agent_id,
            fission : CellValues.fission \cup {NA}] :
        \A c \in Cols : IF c \in cols THEN r[c] \in CellValues[c]
                                      ELSE r[c] = NoCell[c]}

\* The header of the channel column is the first alias, 渠道名称, or another
\* one; zh_channel_name in the column set says that it is 渠道名称 itself.
Tables ==
    UNION {[columns : {cols} \cup (IF "channel" \in cols
                                   THEN {cols \cup {"zh_channel_name"}}
                                   ELSE {}),
            rows : UNION {[1..n -> RowsOf(cols)] : n \in 0..MaxStdRows}] :
           cols \in SUBSET Cols}

\* What a standardizer hands back: a frame (its columns and rows), or an
\* exception that leaves it.
Frame(columns, rows) == [raised |-> FALSE, columns |-> columns, rows |-> rows]
KeyError == [raised |-> TRUE, columns |-> {}, rows |-> <<>>]

OutRow(date, name, name_clean, id, platform) ==
    [date |-> date, name |-> name, name_clean |-> name_clean, id |-> id,
     platform |-> platform]

map_rows(rows, f(_)) == [i \in 1..Len(rows) |-> f(rows[i])]

\* series.map(name_id_map): the entry, NaN without one.
map_lookup(m, name) == IF name \in DOMAIN m THEN {m[name]} ELSE {}

\* Columns of a standardized frame.  Aliases: date 日期, name 总代名称,
\* name_clean 总代名称_清洗, id 总代号, platform 盘口, channel_raw
\* 渠道名称_原始 (std_agent only; its cells are those of the name column).

\* std_agent's stable_id_func (lines 983-986): pd.NA for a null, else the
\* md5 id of the name, the empty one too.
stable_id_func(name) ==
    IF name = NA THEN {} ELSE {md5_int(name)}

std_ops(d) ==
    IF "channel" \notin d.columns THEN Frame({}, <<>>)
    ELSE IF "date" \notin d.columns THEN KeyError
    ELSE LET out(r) == OutRow(normalize_date(r.date), r.channel,
                              strip_tail_parenthesis(r.channel),
                              extract_agent_id_from_tail(r.channel), NA)
             kept(o) == o.date # NA /\ o.name # NA
         IN  Frame({"date", "name", "name_clean", "id"},
                   SelectSeq(map_rows(d.rows, out), kept))

std_agent(d, m, fname) ==
    IF d.rows = <<>> THEN Frame({"date", "name", "name_clean", "id"}, <<>>)
    ELSE IF "channel" \notin d.columns THEN Frame({}, <<>>)
    ELSE IF "date" \notin d.columns THEN KeyError
    ELSE LET file_platform == parse_filename(fname)
             clean(r) == strip_tail_parenthesis(r.channel)
             id(r) == IF "agent_id" \in d.columns THEN r.agent_id
                      ELSE IF m # EmptyMap THEN map_lookup(m, clean(r))
                      ELSE stable_id_func(clean(r))
             out(r) == OutRow(normalize_date(r.date), r.channel, clean(r),
                              id(r),
                              IF truthy(file_platform) THEN file_platform
                                                       ELSE NA)
             kept(o) == o.date # NA /\ o.name_clean # NA
         IN  Frame({"date", "name", "name_clean", "id"}
                       \cup (IF "zh_channel_name" \in d.columns
                             THEN {"channel_raw"} ELSE {})
                       \cup (IF truthy(file_platform) THEN {"platform"}
                                                      ELSE {}),
                   SelectSeq(map_rows(d.rows, out), kept))

std_platform(d) ==
    IF d.rows = <<>> THEN Frame({"date", "platform"}, <<>>)
    ELSE IF "date" \notin d.columns \/ "platform" \notin d.columns
         THEN KeyError
    ELSE LET out(r) == OutRow(normalize_date(r.date), NA, NA, {}, r.platform)
             kept(o) == o.date # NA /\ o.platform # NA
         IN  Frame({"date", "platform"},
                   SelectSeq(map_rows(d.rows, out), kept))

std_daily(d, m) ==
    IF d.rows = <<>> THEN Frame({"date"}, <<>>)
    ELSE IF "date" \notin d.columns THEN KeyError
    ELSE LET has_channel == "channel" \in d.columns
             clean(r) == strip_tail_parenthesis(r.channel)
             id(r) == IF "agent_id" \in d.columns THEN r.agent_id
                      ELSE map_lookup(m, clean(r))
             out(r) == IF has_channel
                       THEN OutRow(normalize_date(r.date), r.channel,
                                   clean(r), id(r), NA)
                       ELSE OutRow(normalize_date(r.date), NA, NA, {}, NA)
             kept(o) == o.date # NA
         IN  Frame({"date"} \cup (IF has_channel
                                  THEN {"name", "name_clean", "id"} ELSE {}),
                   SelectSeq(map_rows(d.rows, out), kept))

\* std_retention without the test for a missing date column: df[None]
\* raises KeyError.
std_retention_unchecked(d, fname) ==
    IF d.rows = <<>> THEN Frame({"date"}, <<>>)
    ELSE IF "date" \notin d.columns THEN KeyError
    ELSE Frame({"date"}, <<>>)

std_retention(d, fname) ==
    IF d.rows = <<>> THEN Frame({"date"}, <<>>)
    ELSE IF "date" \notin d.columns THEN Frame({}, <<>>)
    ELSE LET file_platform == parse_filename(fname)
             has_channel == "channel" \in d.columns
             is_all(r) == r.fission = "zh_all"
             rows == IF "fission" \in d.columns THEN SelectSeq(d.rows, is_all)
                                                ELSE d.rows
             id(r) == IF "agent_id" \in d.columns THEN r.agent_id
                      ELSE extract_agent_id_from_tail(r.channel)
             plat(r) == IF truthy(file_platform) THEN file_platform
                        ELSE IF "platform" \in d.columns THEN r.platform
                        ELSE NA
             out(r) == IF has_channel
                       THEN OutRow(normalize_date(r.date), r.channel,
                                   strip_tail_parenthesis(r.channel), id(r),
                                   plat(r))
                       ELSE OutRow(normalize_date(r.date), NA, NA, {},
                                   plat(r))
             kept(o) == o.date # NA
         IN  Frame({"date"}
                       \cup (IF has_channel THEN {"name", "name_clean", "id"}
                                            ELSE {})
                       \cup (IF truthy(file_platform)
                                \/ "platform" \in d.columns
                             THEN {"platform"} ELSE {}),
                   SelectSeq(map_rows(rows, out), kept))

std_fpltv(d, fname) ==
    IF d.rows = <<>> THEN Frame({"date"}, <<>>)
    ELSE IF "date" \notin d.columns THEN KeyError
    ELSE LET file_platform == parse_filename(fname)
             has_channel == "channel" \in d.columns
             has_id == "agent_id" \in d.columns
             plat(r) == IF truthy(file_platform) THEN file_platform
                        ELSE IF "platform" \in d.columns THEN r.platform
                        ELSE NA
             out(r) == OutRow(normalize_date(r.date),
                              IF has_channel THEN r.channel ELSE NA,
                              IF has_channel
                              THEN strip_tail_parenthesis(r.channel) ELSE NA,
                              IF has_id THEN r.agent_id ELSE {},
                              plat(r))
             kept(o) == o.date # NA
         IN  Frame({"date"}
                       \cup (IF has_id THEN {"id"} ELSE {})
                       \cup (IF has_channel THEN {"name", "name_clean"}
                                            ELSE {})
                       \cup (IF truthy(file_platform)
                                \/ "platform" \in d.columns
                             THEN {"platform"} ELSE {}),
                   SelectSeq(map_rows(d.rows, out), kept))

std_cost(d) ==
    IF "date" \notin d.columns THEN Frame({}, <<>>)
    ELSE LET has_channel == "channel" \in d.columns
             has_plat == "platform" \in d.columns
             out(r) == OutRow(normalize_date(r.date),
                              IF has_channel THEN r.channel ELSE NA,
                              IF has_channel
                              THEN strip_tail_parenthesis(r.channel) ELSE NA,
                              {},
                              IF has_plat THEN r.platform ELSE NA)
             kept(o) == o.date # NA
         IN  Frame({"date"}
                       \cup (IF has_channel THEN {"name", "name_clean"}
                                            ELSE {})
                       \cup (IF has_plat THEN {"platform"} ELSE {}),
                   SelectSeq(map_rows(d.rows, out), kept))

InitStd ==
    /\ IdleCls /\ IdleSel /\ IdleMet /\ IdleMain /\ IdleRet
    /\ IdleScn /\ IdlePick
    /\ IdleLtv
    /\ IdleCost
    /\ IdleWr
    /\ IdleNd
    /\ IdleTail
    /\ IdleScr
    /\ IdleMg
    /\ std_pc = "call"
    /\ df \in Tables
    /\ filename \in FileNameParts
    /\ name_id_map \in NameIdMaps
    /\ std_fn = NA
    /\ result = NA

\* main hands the table of a file to the standardizer of its kind.
StdOps ==
    /\ std_pc = "call"
    /\ std_fn' = "std_ops"
    /\ result' = std_ops(df)
    /\ std_pc' = "done"
    /\ UNCHANGED <<df, filename, other_than_std>>

StdAgent ==
    /\ std_pc = "call"
    /\ std_fn' = "std_agent"
    /\ result' = std_agent(df, name_id_map, filename)
    /\ std_pc' = "done"
    /\ UNCHANGED <<df, filename, other_than_std>>

StdPlatform ==
    /\ std_pc = "call"
    /\ std_fn' = "std_platform"
    /\ result' = std_platform(df)
    /\ std_pc' = "done"
    /\ UNCHANGED <<df, filename, other_than_std>>

StdDaily ==
    /\ std_pc = "call"
    /\ std_fn' = "std_daily"
    /\ result' = std_daily(df, name_id_map)
    /\ std_pc' = "done"
    /\ UNCHANGED <<df, filename, other_than_std>>

StdRetention ==
    /\ std_pc = "call"
    /\ std_fn' = "std_retention"
    /\ result' = std_retention(df, filename)
    /\ std_pc' = "done"
    /\ UNCHANGED <<df, filename, other_than_std>>

StdFpltv ==
    /\ std_pc = "call"
    /\ std_fn' = "std_fpltv"
    /\ result' = std_fpltv(df, filename)
    /\ std_pc' = "done"
    /\ UNCHANGED <<df, filename, other_than_std>>

StdCost ==
    /\ std_pc = "call"
    /\ std_fn' = "std_cost"
    /\ result' = std_cost(df)
    /\ std_pc' = "done"
    /\ UNCHANGED <<df, filename, other_than_std>>

NextStd ==
    \/ StdOps \/ StdAgent \/ StdPlatform \/ StdDaily \/ StdRetention
    \/ StdFpltv \/ StdCost

SpecStd == InitStd /\ [][NextStd]_vars

\* C6 (as claimed): every standardizer, given a non-empty table in which no
\* date column or no channel column resolves, returns an empty standardized
\* set and does not raise.
C6_MissingDateOrChannelGivesEmpty ==
    (/\ std_pc = "done"
     /\ df.rows # <<>>
     /\ ("date" \notin df.columns \/ "channel" \notin df.columns)) =>
        (~result.raised /\ result.rows = <<>>)

(***************************************************************************)
(* main: from the agent files to the agent frame of the selected date      *)
(***************************************************************************)

MaxAgentFiles == 2

TARGET_DATE == "2025-10-30"

\* Ops files: none, one without a tail id, one or two with tail ids.
OpsTable(name) ==
    [columns |-> {"date", "channel"},
     rows |-> <<[NoCell EXCEPT !.date = "2025-10-30", !.channel = name]>>]

OpsFileLists ==
    {<<>>, <<OpsTable("Z")>>, <<OpsTable("X(55)")>>,
     <<OpsTable("X(55)"), OpsTable("Y_fw(7)")>>}

\* Agent files: a name with or without a platform part, and a one-row table
\* with a date and a channel column, with or without an agent-id column.
AgentFileNames == {f \in FileNameParts : parse_filename(f) # ""}

AgentTables ==
    {t \in Tables : /\ {"date", "channel"} \subseteq t.columns
                    /\ t.columns \subseteq {"date", "channel", "agent_id",
                                            "zh_channel_name"}
                    /\ Len(t.rows) = 1}

AgentFiles == [filename : AgentFileNames, df : AgentTables]

\* pd.concat of frames: the rows one after the other, the columns of all.
RECURSIVE concat_rows(_)
concat_rows(list) ==
    IF list = <<>> THEN <<>> ELSE Head(list).rows \o concat_rows(Tail(list))

concat(list) ==
    Frame(UNION {list[i].columns : i \in DOMAIN list}, concat_rows(list))

id_of(cell) == CHOOSE v \in cell : TRUE

\* s.value_counts().index[0]: the most frequent id of a name.
mode_id(rows, n) ==
    LET count(v) == Cardinality({i \in DOMAIN rows :
                                    rows[i].name_clean = n /\ rows[i].id = {v}})
        ids == {id_of(rows[i].id) : i \in {j \in DOMAIN rows :
                                              rows[j].name_clean = n}}
    IN  CHOOSE v \in ids : \A w \in ids : count(v) >= count(w)

\* Lines 1328-1349: the non-empty std_ops results, their rows with a name
\* and a tail id, and for each cleaned name its most frequent id.
build_name_id_map(tables) ==
    LET std(t) == std_ops(t)
        nonempty(r) == r.rows # <<>>
        ops_list == SelectSeq(map_rows(tables, std), nonempty)
        has_id(o) == o.name_clean # NA /\ o.id # {}
        tmp == SelectSeq(concat_rows(ops_list), has_id)
    IN  [n \in {tmp[i].name_clean : i \in DOMAIN tmp} |-> mode_id(tmp, n)]

\* get_promotion_method: a cell that is no string is skipped and the names
\* of ChannelNames hold none of its keywords, which gives the default.
\* Alias: zh_toufang 投放.
get_promotion_method(channel_names) == "zh_toufang"

date_no(d) == IF d = "2025-10-29" THEN 29 ELSE 30

max_date(dates) == CHOOSE d \in dates : \A e \in dates : date_no(d) >= date_no(e)

\* agg 'first': the first value that is not null.
first_valid(values) ==
    LET idx == {i \in DOMAIN values : values[i] # NA}
    IN  IF idx = {} THEN NA
        ELSE values[CHOOSE i \in idx : \A j \in idx : i <= j]

\* groupby sorts by key: date, then id.
key_before(a, b) ==
    \/ date_no(a[1]) < date_no(b[1])
    \/ a[1] = b[1] /\ id_lt(id_of(a[2]), id_of(b[2]))

RECURSIVE sort_keys(_)
sort_keys(K) ==
    IF K = {} THEN <<>>
    ELSE LET m == CHOOSE k \in K : \A j \in K \ {k} : key_before(k, j)
         IN  <<m>> \o sort_keys(K \ {m})

\* Lines 1509-1565: one row per (date, id); rows without an id leave the
\* frame with their group; name, cleaned name and platform take the first
\* value that is not null.  When a file of the run had the header 渠道名称
\* the frame has the raw channel column: the promotion method is made from
\* it (a cell of a file without that header is null and skipped) and the
\* raw column dropped; otherwise no promotion method column is made.
dedup_agent(a) ==
    IF a.rows = <<>> THEN a
    ELSE LET has_channel_names == "channel_raw" \in a.columns
             keys == {<<a.rows[i].date, a.rows[i].id>> :
                         i \in {j \in DOMAIN a.rows : a.rows[j].id # {}}}
             group(k) == LET in_group(r) == r.date = k[1] /\ r.id = k[2]
                         IN  SelectSeq(a.rows, in_group)
             names(g) == [i \in DOMAIN g |-> g[i].name]
             cleans(g) == [i \in DOMAIN g |-> g[i].name_clean]
             plats(g) == [i \in DOMAIN g |-> g[i].platform]
             row(k) == [date |-> k[1], id |-> k[2],
                        name |-> first_valid(names(group(k))),
                        name_clean |-> first_valid(cleans(group(k))),
                        platform |-> first_valid(plats(group(k))),
                        promo |-> IF has_channel_names
                                  THEN get_promotion_method(names(group(k)))
                                  ELSE NA]
             sorted == sort_keys(keys)
         IN  Frame(IF has_channel_names
                   THEN (a.columns \ {"channel_raw"}) \cup {"promo"}
                   ELSE a.columns,
                   [i \in DOMAIN sorted |-> row(sorted[i])])

InitAgent ==
    /\ IdleCls /\ IdleSel /\ IdleMet /\ IdleStd /\ IdleMap
    /\ IdleRet /\ IdleScn /\ IdlePick
    /\ IdleLtv
    /\ IdleCost
    /\ IdleWr
    /\ IdleNd
    /\ IdleTail
    /\ IdleScr
    /\ IdleMg
    /\ main_pc = "start"
    /\ ops_files \in OpsFileLists
    /\ agent_files \in UNION {[1..n -> AgentFiles] : n \in 0..MaxAgentFiles}
    /\ file_i = 0 /\ agent_list = <<>> /\ agent = NA /\ selected_date = NA
    /\ sources = <<>> /\ src_i = 0 /\ base_keys = NA /\ main_id = NA
    /\ output = NA

BuildNameIdMap ==
    /\ main_pc = "start"
    /\ name_id_map' = build_name_id_map(ops_files)
    /\ main_pc' = "mapped"
    /\ UNCHANGED <<ops_files, agent_files, file_i, agent_list, agent,
                   selected_date, sources, src_i, base_keys, main_id, output,
                   other_than_main>>

\* Lines 1406-1415: std_agent on the next agent file; an exception leaves
\* main.
ProcessAgentFile ==
    /\ main_pc = "mapped"
    /\ file_i < Len(agent_files)
    /\ LET f == agent_files[file_i + 1]
           r == std_agent(f.df, name_id_map, f.filename)
       IN  IF r.raised
           THEN /\ main_pc' = "aborted"
                /\ UNCHANGED <<file_i, agent_list>>
           ELSE /\ main_pc' = "mapped"
                /\ file_i' = file_i + 1
                /\ agent_list' = IF r.rows # <<>> THEN Append(agent_list, r)
                                                  ELSE agent_list
    /\ UNCHANGED <<ops_files, agent_files, agent, selected_date, sources,
                   src_i, base_keys, main_id, output, vars_map,
                   other_than_main>>

\* Line 1458.
ConcatAgent ==
    /\ main_pc = "mapped"
    /\ file_i = Len(agent_files)
    /\ agent' = IF agent_list # <<>> THEN concat(agent_list)
                ELSE Frame({"date", "name", "name_clean", "id"}, <<>>)
    /\ main_pc' = "concat"
    /\ UNCHANGED <<ops_files, agent_files, file_i, agent_list, selected_date,
                   sources, src_i, base_keys, main_id, output, vars_map,
                   other_than_main>>

DedupAgent ==
    /\ main_pc = "concat"
    /\ agent' = dedup_agent(agent)
    /\ main_pc' = "deduped"
    /\ UNCHANGED <<ops_files, agent_files, file_i, agent_list, selected_date,
                   sources, src_i, base_keys, main_id, output, vars_map,
                   other_than_main>>

\* Lines 1586-1640 and 1733-1742: the report's date is TARGET_DATE when some
\* source has it, else the latest date; the agent frame keeps the rows of
\* that date.  Without any date the names of the *_for_base frames are
\* unbound at line 1742 and main ends with that exception.
SelectDate ==
    /\ main_pc = "deduped"
    /\ LET all_dates == {agent.rows[i].date : i \in DOMAIN agent.rows}
           date == IF TARGET_DATE \in all_dates THEN TARGET_DATE
                                                ELSE max_date(all_dates)
           of_date(r) == r.date = date
       IN  IF all_dates = {}
           THEN /\ main_pc' = "aborted"
                /\ UNCHANGED <<agent, selected_date>>
           ELSE /\ selected_date' = date
                /\ agent' = [agent EXCEPT !.rows = SelectSeq(agent.rows, of_date)]
                /\ main_pc' = "filtered"
    /\ UNCHANGED <<ops_files, agent_files, file_i, agent_list, sources, src_i,
                   base_keys, main_id, output, vars_map, other_than_main>>

NextAgent ==
    \/ BuildNameIdMap \/ ProcessAgentFile \/ ConcatAgent \/ DedupAgent
    \/ SelectDate

SpecAgent == InitAgent /\ [][NextAgent]_vars

\* The agent frame main builds from the agent files taken in the given order
\* (lines 1406-1415, 1458, 1509-1565).
agent_frame_of(file_list, m) ==
    LET std(f) == std_agent(f.df, m, f.filename)
        nonempty(r) == r.rows # <<>>
        list == SelectSeq([i \in DOMAIN file_list |-> std(file_list[i])],
                          nonempty)
    IN  dedup_agent(IF list # <<>> THEN concat(list)
                    ELSE Frame({"date", "name", "name_clean", "id"}, <<>>))

\* C22 (as claimed): the rows of a run do not depend on the order in which
\* the file system lists the input files: the agent frame built from two agent
\* files is the one built from the same two files listed the other way round.
C22_FileOrderIrrelevant ==
    (main_pc = "deduped" /\ Len(agent_files) = 2) =>
        agent = agent_frame_of(<<agent_files[2], agent_files[1]>>,
                               name_id_map)

\* C19 (as claimed, for the run without any valid date): a run whose input
\* files give no dated row ends in one of main's reported returns (empty
\* base_keys, line 1875; no row left, line 2532) without an output; it does
\* not end in an exception on the way.
C19_NoDataRunEndsReported ==
    (/\ ops_files # <<>>
     /\ file_i = Len(agent_files)
     /\ agent_list = <<>>) => main_pc # "aborted"

\* C27 (as claimed): with a specific date configured (TARGET_DATE), the
\* date the run reports on is that date: once the date is selected,
\* selected_date is TARGET_DATE and the agent frame holds rows of
\* TARGET_DATE only.
C27_ReportDateIsTargetDate ==
    main_pc = "filtered" =>
        /\ selected_date = TARGET_DATE
        /\ \A i \in DOMAIN agent.rows : agent.rows[i].date = TARGET_DATE

\* C2 (as claimed): an agent-report row of the report's date whose channel
\* name yields no id (no agent-id column in its file, no entry for its
\* cleaned name in name_id_map) is not dropped and does not end the run: the
\* agent frame holds it under stable_agent_id(cleaned name).
C2_UnresolvableRowKept ==
    \A k \in DOMAIN agent_files :
        LET f == agent_files[k]
            r == f.df.rows[1]
            clean == strip_tail_parenthesis(r.channel)
            kept(date) == \E i \in DOMAIN agent.rows :
                              /\ agent.rows[i].id = stable_agent_id(clean)
                              /\ agent.rows[i].date = date
        IN  (/\ main_pc \notin {"start", "mapped", "concat"}
             /\ "agent_id" \notin f.df.columns
             /\ clean \notin DOMAIN name_id_map
             /\ normalize_date(r.date) # NA) =>
                /\ main_pc # "aborted"
                /\ main_pc = "deduped" => kept(normalize_date(r.date))
                /\ (main_pc = "filtered"
                    /\ normalize_date(r.date) = selected_date) =>
                       kept(selected_date)

\* C3 (as claimed): the agent_id std_agent gives a row is the cell of the
\* agent-id column when the file has that column, else the trailing
\* parenthetical integer of the channel name when it has one, else the hash
\* of the cleaned name; "X(55)" without an agent-id column gets 55.
C3_AgentIdRule ==
    (/\ std_pc = "done" /\ std_fn = "std_agent"
     /\ ~result.raised
     /\ df.rows # <<>>
     /\ Len(result.rows) = Len(df.rows)) =>
        \A i \in DOMAIN df.rows :
            LET r == df.rows[i]
                tail == extract_agent_id_from_tail(r.channel)
            IN  result.rows[i].id =
                    IF "agent_id" \in df.columns THEN r.agent_id
                    ELSE IF tail # {} THEN tail
                    ELSE stable_agent_id(strip_tail_parenthesis(r.channel))

\* The hash fallback on its own: std_agent on an agent report without an
\* agent-id column, of up to MaxHashRows rows.
MaxHashRows == 2

HashTables ==
    [columns : {{"date", "channel"}, {"date", "channel", "zh_channel_name"}},
     rows : UNION {[1..n -> RowsOf({"date", "channel"})] :
                      n \in 0..MaxHashRows}]

InitStableId ==
    /\ IdleCls /\ IdleSel /\ IdleMet /\ IdleMain /\ IdleRet
    /\ IdleScn /\ IdlePick
    /\ IdleLtv
    /\ IdleCost
    /\ IdleWr
    /\ IdleNd
    /\ IdleTail
    /\ IdleScr
    /\ IdleMg
    /\ std_pc = "call"
    /\ df \in HashTables
    /\ filename \in FileNameParts
    /\ name_id_map \in NameIdMaps
    /\ std_fn = NA
    /\ result = NA

NextStableId == StdAgent

SpecStableId == InitStableId /\ [][NextStableId]_vars

\* C25 (as claimed): when std_agent falls back to the hash (no agent-id
\* column in the file, empty name_id_map), the id of every row it returns
\* is stable_agent_id of the row's cleaned name, the id main's stable-id
\* fill (lines 1968-1974) gives that name, and rows of one cleaned name
\* share their id.
C25_FallbackIdIsStableAgentId ==
    (/\ std_pc = "done" /\ std_fn = "std_agent"
     /\ ~result.raised
     /\ "agent_id" \notin df.columns
     /\ name_id_map = EmptyMap) =>
        /\ \A i \in DOMAIN result.rows :
               result.rows[i].id = stable_agent_id(result.rows[i].name_clean)
        /\ \A i, j \in DOMAIN result.rows :
               result.rows[i].name_clean = result.rows[j].name_clean =>
                   result.rows[i].id = result.rows[j].id

(***************************************************************************)
(* main: the identity universe (base_keys), main and the final aggregation *)
(***************************************************************************)

MaxSrcKeys == 1

\* The supplement sources in the order of supplement_sources (line 1828).
SourceOrder == <<"ret_login", "ret_play", "ret_fpay", "fpltv">>

\* The agent frame as the dedup and the date filter leave it: at most one
\* row per id, every id set, all rows of selected_date; the platform column
\* is there when a file name of the run carried a platform, the promotion
\* method column when a file of the run had the header 渠道名称.
AgentIdentities ==
    <<[id |-> {Int64(0, 55)}, name |-> "X(55)", name_clean |-> "X"],
      [id |-> {Int64(0, 566420885)}, name |-> "Z", name_clean |-> "Z"]>>

AgentPlatforms == {NA, "P1", "P2"}

agent_rows(choice, promo) ==
    LET present(i) == choice[i] # "absent"
        row(i) == [date |-> TARGET_DATE, id |-> AgentIdentities[i].id,
                   name |-> AgentIdentities[i].name,
                   name_clean |-> AgentIdentities[i].name_clean,
                   platform |-> choice[i], promo |-> promo]
    IN  (IF present(1) THEN <<row(1)>> ELSE <<>>)
            \o (IF present(2) THEN <<row(2)>> ELSE <<>>)

DedupedAgents ==
    UNION {LET rows == agent_rows(choice, promo)
               some_platform == \E i \in DOMAIN rows : rows[i].platform # NA
           IN  IF rows = <<>>
               THEN {Frame({"date", "name", "name_clean", "id"}, <<>>)}
               ELSE {Frame({"date", "name", "name_clean", "id"}
                               \cup (IF promo # NA THEN {"promo"} ELSE {})
                               \cup pc, rows) :
                        pc \in IF some_platform THEN {{"platform"}}
                                                ELSE {{}, {"platform"}}} :
           choice \in [1..2 -> AgentPlatforms \cup {"absent"}],
           promo \in {get_promotion_method(<<>>), NA}}

\* A *_for_base frame, after the date filter and the dedup of lines
\* 1738-1796: its columns and its distinct (platform, id) keys, all of
\* selected_date.  A key without platform stands in a frame that has no
\* numeric column (the dedup groupby would have dropped it).
SrcKeys ==
    {<<"P1", {Int64(0, 55)}>>, <<NA, {Int64(0, 55)}>>,
     <<"P1", {Int64(0, 7)}>>}

\* A retention frame passed is_meaningful_df (lines 1462-1483), so it is
\* empty or has the three key columns; the first-pay-LTV frame is
\* concatenated as it is (line 1484) and may come without platform column.
RetSourceFrames ==
    {[columns |-> {}, keys |-> {}]}
        \cup {[columns |-> {"date", "platform", "id"}, keys |-> K] :
                 K \in SmallSubsets(SrcKeys, MaxSrcKeys) \ {{}}}

FpltvSourceFrames ==
    RetSourceFrames
        \cup {[columns |-> {"date", "id"}, keys |-> {<<NA, {Int64(0, 55)}>>}]}

SourceLists ==
    {<<a, b, c, d>> : a \in RetSourceFrames, b \in RetSourceFrames,
                      c \in RetSourceFrames, d \in FpltvSourceFrames}

key_of(r) == <<r.date, r.platform, r.id>>

keys_of(rows) == {key_of(rows[i]) : i \in DOMAIN rows}

\* drop_duplicates: the first row of every group of equal rows.
drop_duplicates(rows) ==
    LET first(i) == \A j \in 1..(i - 1) : rows[j] # rows[i]
        idx == {i \in DOMAIN rows : first(i)}
        RECURSIVE take(_)
        take(i) == IF i > Len(rows) THEN <<>>
                   ELSE (IF i \in idx THEN <<rows[i]>> ELSE <<>>) \o take(i + 1)
    IN  take(1)

\* Lines 1802-1818.
primary_base_keys(a) ==
    IF a.rows # <<>>
    THEN Frame({"date", "name", "name_clean", "id"}
                   \cup (a.columns \cap {"platform", "promo"}),
               drop_duplicates(a.rows))
    ELSE Frame({"date", "name", "name_clean", "id", "platform", "promo"},
               <<>>)

plat_no(p) == CASE p = NA -> 0 [] p = "P1" -> 1 [] p = "P2" -> 2

triple_before(a, b) ==
    \/ date_no(a[1]) < date_no(b[1])
    \/ a[1] = b[1] /\ plat_no(a[2]) < plat_no(b[2])
    \/ a[1] = b[1] /\ a[2] = b[2] /\ id_lt(id_of(a[3]), id_of(b[3]))

RECURSIVE sort_triples(_)
sort_triples(K) ==
    IF K = {} THEN <<>>
    ELSE LET m == CHOOSE k \in K : \A j \in K \ {k} : triple_before(k, j)
         IN  <<m>> \o sort_triples(K \ {m})

\* pd.concat([base_keys, new_keys]): the new rows after the old ones.
append_rows_dropping_old(rows, new_rows) == new_rows

append_rows(rows, new_rows) == rows \o new_rows

\* Lines 1822-1825 and 1853-1858: the name of an id, from the first agent
\* row that has it.
agent_name(a, id, field) ==
    LET idx == {i \in DOMAIN a.rows : a.rows[i].id = id}
    IN  IF idx = {} THEN NA
        ELSE a.rows[CHOOSE i \in idx : \A j \in idx : i <= j][field]

\* Lines 1831-1866, one supplement source: skipped when empty or without a
\* date, platform or id column; its keys anti-joined against base_keys when
\* base_keys has rows and a platform column, taken as they are otherwise;
\* the new keys appended with the agent's name and no promotion method.
new_keys_of(base, src, date) ==
    LET src_keys == {<<date, k[1], k[2]>> : k \in src.keys}
    IN  IF src.keys = {} \/ ~({"date", "platform", "id"} \subseteq src.columns)
        THEN {}
        ELSE IF base.rows # <<>> /\ {"platform", "id"} \subseteq base.columns
             THEN src_keys \ keys_of(base.rows)
             ELSE src_keys

supplement(base, src, a, date) ==
    LET new_keys == sort_triples(new_keys_of(base, src, date))
        new_row(k) == [date |-> k[1], platform |-> k[2], id |-> k[3],
                       name |-> agent_name(a, k[3], "name"),
                       name_clean |-> agent_name(a, k[3], "name_clean"),
                       promo |-> NA]
    IN  IF new_keys = <<>> THEN base
        ELSE Frame(base.columns \cup {"date", "platform", "id", "name",
                                      "name_clean", "promo"},
                   append_rows(base.rows,
                               [i \in DOMAIN new_keys |-> new_row(new_keys[i])]))

\* Lines 1873-1882 and 1950-1974: main starts as base_keys with every
\* identity column; an id that is missing becomes the stable id of the
\* cleaned name.
init_main(base) ==
    LET fill(r) == IF r.id # {} THEN r
                   ELSE [r EXCEPT !.id = stable_agent_id(r.name_clean)]
    IN  Frame(base.columns \cup {"name_clean", "name", "id", "promo",
                                 "platform"},
              map_rows(base.rows, fill))

\* Lines 2361-2529: rows without a date are dropped; the frame is grouped
\* by date, platform and id, and a row with a null in one of the three
\* leaves the frame with its group; text columns take the first value that
\* is not null.  The left joins and the metric columns before (1981-2359)
\* leave the three columns as they are.
aggregate(m) ==
    LET fill(r) == [r EXCEPT !.promo = IF r.promo = NA THEN "" ELSE r.promo,
                             !.name = IF r.name = NA THEN r.name_clean
                                                     ELSE r.name]
        dated(r) == r.date # NA
        rows == SelectSeq(map_rows(m.rows, fill), dated)
        full(k) == k[2] # NA /\ k[3] # {}
        keys == sort_triples({k \in keys_of(rows) : full(k)})
        group(k) == LET in_group(r) == key_of(r) = k
                    IN  SelectSeq(rows, in_group)
        names(g) == [i \in DOMAIN g |-> g[i].name]
        promos(g) == [i \in DOMAIN g |-> g[i].promo]
    IN  [i \in DOMAIN keys |->
            [date |-> keys[i][1], platform |-> keys[i][2], id |-> keys[i][3],
             name |-> first_valid(names(group(keys[i]))),
             promo |-> first_valid(promos(group(keys[i])))]]

InitBase ==
    /\ IdleCls /\ IdleSel /\ IdleMet /\ IdleStd /\ IdleMap
    /\ IdleRet /\ IdleScn /\ IdlePick
    /\ IdleLtv
    /\ IdleCost
    /\ IdleWr
    /\ IdleNd
    /\ IdleTail
    /\ IdleScr
    /\ IdleMg
    /\ main_pc = "filtered"
    /\ ops_files = <<>> /\ agent_files = <<>> /\ file_i = 0
    /\ agent_list = <<>>
    /\ agent \in DedupedAgents
    /\ selected_date = TARGET_DATE
    /\ sources \in SourceLists
    /\ src_i = 0 /\ base_keys = NA /\ main_id = NA /\ output = NA

\* Lines 1802-1818.
BuildBaseKeys ==
    /\ main_pc = "filtered"
    /\ base_keys' = primary_base_keys(agent)
    /\ main_pc' = "base"
    /\ UNCHANGED <<ops_files, agent_files, file_i, agent_list, agent,
                   selected_date, sources, src_i, main_id, output, vars_map,
                   other_than_main>>

\* Lines 1831-1866: one turn of the loop over supplement_sources.
SupplementSource ==
    /\ main_pc = "base"
    /\ src_i < Len(sources)
    /\ base_keys' = supplement(base_keys, sources[src_i + 1], agent,
                               selected_date)
    /\ src_i' = src_i + 1
    /\ main_pc' = IF src_i + 1 = Len(sources) THEN "supplemented" ELSE "base"
    /\ UNCHANGED <<ops_files, agent_files, file_i, agent_list, agent,
                   selected_date, sources, main_id, output, vars_map,
                   other_than_main>>

\* Lines 1873-1974: main returns when base_keys is empty.
InitMain ==
    /\ main_pc = "supplemented"
    /\ IF base_keys.rows = <<>>
       THEN /\ main_pc' = "no_data"
            /\ UNCHANGED main_id
       ELSE /\ main_id' = init_main(base_keys)
            /\ main_pc' = "main"
    /\ UNCHANGED <<ops_files, agent_files, file_i, agent_list, agent,
                   selected_date, sources, src_i, base_keys, output, vars_map,
                   other_than_main>>

\* Lines 1981-2603: the joins, the metrics, the aggregation; main returns
\* without a file when no row is left (2531-2535).
Aggregate ==
    /\ main_pc = "main"
    /\ LET out == aggregate(main_id)
       IN  IF out = <<>>
           THEN /\ main_pc' = "no_output"
                /\ UNCHANGED output
           ELSE /\ output' = out
                /\ main_pc' = "written"
    /\ UNCHANGED <<ops_files, agent_files, file_i, agent_list, agent,
                   selected_date, sources, src_i, base_keys, main_id, vars_map,
                   other_than_main>>

NextBase == BuildBaseKeys \/ SupplementSource \/ InitMain \/ Aggregate

SpecBase == InitBase /\ [][NextBase]_vars

\* C18 (as claimed, for the identifying text columns of the written table): a
\* text column that no source filled holds the empty string.  With no agent
\* rows no source carries an agent name or a promotion method, so both
\* columns of every written row would be "".  (The projection of line 2529
\* does give the 53 columns of FINAL_COLUMNS in order.)
C18_UnfilledTextColumnsAreEmpty ==
    (main_pc = "written" /\ agent.rows = <<>>) =>
        \A i \in DOMAIN output :
            /\ output[i].name = ""
            /\ output[i].promo = ""

\* C1 (as claimed): when main writes an output, its rows are one per
\* (date, platform, agent id) key of the identity universe: no two output
\* rows share a key and no key of the universe is missing, a key whose
\* platform is unset included.
C1_OutputRowsAreUniverseKeys ==
    main_pc = "written" =>
        LET universe == keys_of(main_id.rows)
        IN  /\ Len(output) = Cardinality(universe)
            /\ keys_of(output) = universe

\* C4: once base_keys is built, and through every turn of the supplement
\* loop, the rows taken from the deduplicated agent frame stay in base_keys
\* at their places and unchanged, so every (date, platform, agent id) of the
\* agent frame is in the identity universe after the loop.
C4_PrimaryRowsKept ==
    main_pc \in {"base", "supplemented", "main", "no_data", "written",
                 "no_output"} =>
        LET primary == primary_base_keys(agent).rows
        IN  /\ Len(base_keys.rows) >= Len(primary)
            /\ SubSeq(base_keys.rows, 1, Len(primary)) = primary
            /\ keys_of(agent.rows) \subseteq keys_of(base_keys.rows)

\* The loop has ended, the agent frame had rows and a source added some.
C4_Witness ==
    /\ main_pc = "supplemented"
    /\ agent.rows # <<>>
    /\ Len(base_keys.rows) > Len(agent.rows)

\* C5 (as claimed): a turn of the supplement loop on a source with date,
\* platform and id columns appends every key of the source that base_keys
\* did not hold, each once and without promotion method, and appends no key
\* that base_keys held already.
C5_SupplementAppendsMissingOnce ==
    [][SupplementSource =>
        LET src == sources[src_i + 1]
            old == base_keys.rows
            new == base_keys'.rows
            appended == SubSeq(new, Len(old) + 1, Len(new))
            src_keys == IF {"date", "platform", "id"} \subseteq src.columns
                        THEN {<<selected_date, k[1], k[2]>> : k \in src.keys}
                        ELSE {}
        IN  /\ keys_of(appended) = src_keys \ keys_of(old)
            /\ Cardinality(keys_of(appended)) = Len(appended)
            /\ \A i \in DOMAIN appended : appended[i].promo = NA]_vars

(***************************************************************************)
(* pick_col                                                                *)
(***************************************************************************)

MaxPickCols == 3
MaxAliases == 2

\* Headers a table may carry for the agent id, and one for the date.
PickHeaders == {"agent_id", "AgentID", "AGENT_ID", "Agent_Id", "agentid",
                "DATE"}

\* Aliases the lists are drawn from (ALIASES["agent_id"], ALIASES["date"]).
PickAliases == {"agent_id", "AgentID", "date"}

\* str.lower on the strings above.
lower(s) ==
    CASE s \in {"agent_id", "AGENT_ID", "Agent_Id"} -> "agent_id"
      [] s \in {"AgentID", "agentid"} -> "agentid"
      [] s \in {"DATE", "date"} -> "date"

\* Sequences over S without repetition, of at most n elements.
DistinctSeqs(S, n) ==
    {q \in UNION {[1..k -> S] : k \in 0..n} :
        \A i, j \in DOMAIN q : i # j => q[i] # q[j]}

elements(q) == {q[i] : i \in DOMAIN q}

first_index(I) == CHOOSE i \in I : \A j \in I : i <= j

last_index(I) == CHOOSE i \in I : \A j \in I : i >= j

\* A single pass that accepts an alias when it matches either way.
pick_col_one_pass(cols, aliases) ==
    LET hit == {i \in DOMAIN aliases :
                   \E j \in DOMAIN cols : lower(cols[j]) = lower(aliases[i])}
    IN  IF hit = {} THEN NA
        ELSE LET a == aliases[first_index(hit)]
             IN  IF a \in elements(cols) THEN a
                 ELSE cols[last_index({j \in DOMAIN cols :
                                          lower(cols[j]) = lower(a)})]

\* Lines 558-568.  lower_map is a dict built in column order, so of two
\* headers with the same lower-case form the later one stays.
pick_col(cols, aliases) ==
    LET exact == {i \in DOMAIN aliases : aliases[i] \in elements(cols)}
        lower_map(k) == cols[last_index({j \in DOMAIN cols :
                                            lower(cols[j]) = k})]
        keys == {lower(cols[j]) : j \in DOMAIN cols}
        loose == {i \in DOMAIN aliases : lower(aliases[i]) \in keys}
    IN  IF exact # {} THEN aliases[first_index(exact)]
        ELSE IF loose # {} THEN lower_map(lower(aliases[first_index(loose)]))
        ELSE NA

InitPick ==
    /\ IdleCls /\ IdleSel /\ IdleMet /\ IdleStd /\ IdleMap
    /\ IdleMain /\ IdleRet /\ IdleScn
    /\ IdleLtv
    /\ IdleCost
    /\ IdleWr
    /\ IdleNd
    /\ IdleTail
    /\ IdleScr
    /\ IdleMg
    /\ pick_pc = "call"
    /\ df_columns \in DistinctSeqs(PickHeaders, MaxPickCols)
    /\ alias_list \in UNION {[1..k -> PickAliases] : k \in 0..MaxAliases}
    /\ picked = NA

PickCol ==
    /\ pick_pc = "call"
    /\ picked' = pick_col(df_columns, alias_list)
    /\ pick_pc' = "done"
    /\ UNCHANGED <<df_columns, alias_list, other_than_pick>>

NextPick == PickCol

SpecPick == InitPick /\ [][NextPick]_vars

\* C11: pick_col returns the first alias of the list that is a header as it
\* is written; when no alias is, it returns a header that equals, without
\* regard to case, the first alias that has such a header; when no alias
\* matches in either way it returns None.
C11_ExactBeforeCaseInsensitive ==
    pick_pc = "done" =>
        LET headers == elements(df_columns)
            is_exact(i) == alias_list[i] \in headers
            is_loose(i) == \E h \in headers : lower(h) = lower(alias_list[i])
            earlier_none(i, P(_)) == \A j \in 1..(i - 1) : ~P(j)
        IN  /\ \A i \in DOMAIN alias_list :
                   (is_exact(i) /\ earlier_none(i, is_exact)) =>
                       picked = alias_list[i]
            /\ \A i \in DOMAIN alias_list :
                   (/\ \A j \in DOMAIN alias_list : ~is_exact(j)
                    /\ is_loose(i) /\ earlier_none(i, is_loose)) =>
                       /\ picked \in headers
                       /\ lower(picked) = lower(alias_list[i])
            /\ (\A i \in DOMAIN alias_list : ~is_loose(i)) => picked = NA

\* The first alias matches some header only without regard to case, a later
\* alias is a header as written, and pick_col returned.
C11_Witness ==
    /\ pick_pc = "done"
    /\ Len(alias_list) >= 2
    /\ alias_list[1] \notin elements(df_columns)
    /\ \E h \in elements(df_columns) : lower(h) = lower(alias_list[1])
    /\ alias_list[2] \in elements(df_columns)
    /\ picked = alias_list[2]

(***************************************************************************)
(* main: one agent-report row, from the file to the written row            *)
(***************************************************************************)

\* The agent report is the only input: no ops file (name_id_map = {}), no
\* cost, retention or first-pay-LTV file.  Its row is of TARGET_DATE and its
\* channel name ends in "(55)" (written "X(55)" as in ChannelNames).
\* Aliases of the file-name parts: BR 巴西, MX 墨西哥.
ScnFileNames ==
    {<<"report">>,
     <<"TT", "P1", "BR", "D1", "report", "2025", "10", "30">>,
     <<"TT", "P1", "MX", "D1", "report", "2025", "10", "30">>}

\* Lines 33-37 and 789, 806-811: the rate of the region in the file name,
\* the rate of 巴西 without one.
EXCHANGE_RATES(region) ==
    CASE region = "BR" -> Frac(6, 1)
      [] region = "MX" -> Frac(187, 10)

exchange_rate_of(parts) ==
    IF Len(parts) >= 5 /\ parts[3] \in {"BR", "MX"}
    THEN EXCHANGE_RATES(parts[3])
    ELSE EXCHANGE_RATES("BR")

\* The cells of the row: register 注册人数, first_pay 首充人数, spend 消耗,
\* pay_amount 充值金额; agent_id is the 代理ID column, absent when {}.
ScnFiles ==
    [filename : ScnFileNames,
     has_id_column : BOOLEAN,
     register : {100, 0},
     first_pay : {20, 0},
     spend : {1000, 0},
     pay_amount : {500, 0}]

\* The scenario of the claim.
ScenarioFile ==
    [filename |-> <<"TT", "P1", "BR", "D1", "report", "2025", "10", "30">>,
     has_id_column |-> FALSE,
     register |-> 100, first_pay |-> 20, spend |-> 1000,
     pay_amount |-> 500]

\* DataFrame.round(2), in hundredths (no value here lies on a tie).
round2(f) == (200 * f.n + f.d) \div (2 * f.d)

\* Lines 940-1040 on the file's row: identity as std_agent gives it, the
\* counts, the amount divided by the exchange rate.  The row's 消耗 cell is
\* not read: no statement of std_agent takes the spend column.
scn_std_agent(f) ==
    LET d == [columns |-> {"date", "channel"}
                             \cup (IF f.has_id_column THEN {"agent_id"}
                                                      ELSE {}),
              rows |-> <<[date |-> TARGET_DATE, channel |-> "X(55)",
                          platform |-> NA,
                          agent_id |-> IF f.has_id_column
                                       THEN {Int64(0, 55)} ELSE {},
                          fission |-> NA]>>]
        ident == std_agent(d, EmptyMap, f.filename)
        rate == exchange_rate_of(f.filename)
    IN  [ident |-> ident.rows[1],
         columns |-> ident.columns,
         register |-> f.register,
         first_pay |-> f.first_pay,
         pay_amount |-> frac_div(Frac(f.pay_amount, 1), rate)]

\* Lines 1981-2033, 2072-2101 and 2235-2266: the agent columns joined to
\* main; no cost frame, so 消耗 is num("消耗", 0.0) = 0; the ratios.
scn_metrics(a) ==
    LET reg == a.register
        fpu == a.first_pay
        spend == 0
    IN  [ident |-> a.ident,
         register |-> reg,
         first_pay |-> fpu,
         spend |-> spend,
         pay_amount |-> a.pay_amount,
         cost_register |-> IF reg > 0 THEN int_div(spend, reg) ELSE Zero,
         firstpay_conv |-> IF reg > 0 THEN int_div(fpu, reg) ELSE Zero]

InitScn ==
    /\ IdleCls /\ IdleSel /\ IdleMet /\ IdleStd /\ IdleMap
    /\ IdleMain /\ IdleRet /\ IdlePick
    /\ IdleLtv
    /\ IdleCost
    /\ IdleWr
    /\ IdleNd
    /\ IdleTail
    /\ IdleScr
    /\ IdleMg
    /\ scn_pc = "selected"
    /\ scn_file \in ScnFiles
    /\ scn_agent = NA /\ scn_main = NA /\ scn_out = NA

\* Lines 1406-1415.
ScnStdAgent ==
    /\ scn_pc = "selected"
    /\ scn_agent' = scn_std_agent(scn_file)
    /\ scn_pc' = "standardized"
    /\ UNCHANGED <<scn_file, scn_main, scn_out, other_than_scn>>

\* Lines 1458-2359: one row, so the dedup, the date filter and base_keys
\* keep it as it is.
ScnMergeAndCompute ==
    /\ scn_pc = "standardized"
    /\ scn_main' = scn_metrics(scn_agent)
    /\ scn_pc' = "computed"
    /\ UNCHANGED <<scn_file, scn_agent, scn_out, other_than_scn>>

\* Lines 2361-2603: the final groupby drops the row when its platform is
\* unset and main returns; else the float columns are rounded to two places
\* and the row is written.  Amounts and ratios of the written row are in
\* hundredths.
ScnWrite ==
    /\ scn_pc = "computed"
    /\ IF scn_main.ident.platform = NA
       THEN /\ scn_pc' = "no_output"
            /\ UNCHANGED scn_out
       ELSE /\ scn_out' = [date |-> scn_main.ident.date,
                           platform |-> scn_main.ident.platform,
                           id |-> scn_main.ident.id,
                           register |-> scn_main.register,
                           first_pay |-> scn_main.first_pay,
                           spend |-> 100 * scn_main.spend,
                           pay_amount |-> round2(scn_main.pay_amount),
                           cost_register |-> round2(scn_main.cost_register),
                           firstpay_conv |-> round2(scn_main.firstpay_conv)]
            /\ scn_pc' = "written"
    /\ UNCHANGED <<scn_file, scn_agent, scn_main, other_than_scn>>

NextScn == ScnStdAgent \/ ScnMergeAndCompute \/ ScnWrite

SpecScn == InitScn /\ [][NextScn]_vars

\* C12 (as claimed): with the one agent-report row of the scenario (date
\* 2025-10-30, a channel name ending in "(55)", register 100, first pay 20,
\* spend 1000, pay amount 500, rate 6.0) as only input, the run writes a row
\* for (2025-10-30, the file name's platform, agent id 55) with register
\* count 100, first-pay count 20, cost per register 10.00, first-pay
\* conversion 0.20 and pay amount 83.33.
C12_ScenarioRow ==
    (scn_file = ScenarioFile /\ scn_pc \in {"written", "no_output"}) =>
        /\ scn_pc = "written"
        /\ scn_out.date = "2025-10-30"
        /\ scn_out.platform = "P1"
        /\ scn_out.id = {Int64(0, 55)}
        /\ scn_out.register = 100
        /\ scn_out.first_pay = 20
        /\ scn_out.cost_register = 1000
        /\ scn_out.firstpay_conv = 20
        /\ scn_out.pay_amount = 8333

(***************************************************************************)
(* main: the retention merge (ret_pick)                                    *)
(***************************************************************************)

MaxRetRows == 2

RetHistKinds == {"ret_login", "ret_play", "ret_fpay", "ret_register"}

\* Rows of a ret_*_historical frame: platform, agent id and the <kind>_D1
\* percentage, of some date up to selected_date (lines 1655-1705: the
\* frame keeps the rows of 日期_dt <= selected_dt); age is the number of
\* days the row's date lies before selected_date.
RetHistRows ==
    {[platform |-> "P1", id |-> {Int64(0, 55)}, pct |-> 40, age |-> 1],
     [platform |-> "P1", id |-> {Int64(0, 55)}, pct |-> 60, age |-> 0],
     [platform |-> "P2", id |-> {Int64(0, 55)}, pct |-> 40, age |-> 0]}

RetHistFrames == UNION {[1..n -> RetHistRows] : n \in 0..MaxRetRows}

\* main's row the columns are joined to.
RetMainKey == [platform |-> "P1", id |-> {Int64(0, 55)}]

\* Lines 2182-2190.
pick_retention(h) ==
    IF h["ret_fpay"] # <<>> THEN "ret_fpay"
    ELSE IF h["ret_play"] # <<>> THEN "ret_play"
    ELSE IF h["ret_login"] # <<>> THEN "ret_login"
    ELSE IF h["ret_register"] # <<>> THEN "ret_register"
    ELSE "none"

RECURSIVE sum_pct(_)
sum_pct(rows) ==
    IF rows = <<>> THEN 0 ELSE Head(rows).pct + sum_pct(Tail(rows))

\* Lines 2191-2223: the picked frame grouped by [盘口, 总代号], the mean of
\* each column, left-joined to main; the cell is NaN without a row of the
\* key.
merged_retention(h, pick, key) ==
    LET same_key(r) == r.platform = key.platform /\ r.id = key.id
        value(k) == LET rows == SelectSeq(h[k], same_key)
                    IN  IF rows = <<>> THEN {}
                        ELSE {int_div(sum_pct(rows), Len(rows))}
    IN  [k \in RetHistKinds |-> IF k = pick THEN value(k) ELSE {}]

InitRet ==
    /\ IdleCls /\ IdleSel /\ IdleMet /\ IdleStd /\ IdleMap
    /\ IdleMain /\ IdlePick /\ IdleScn
    /\ IdleLtv
    /\ IdleCost
    /\ IdleWr
    /\ IdleNd
    /\ IdleTail
    /\ IdleScr
    /\ IdleMg
    /\ ret_pc = "lookback_done"
    /\ ret_historical \in [RetHistKinds -> RetHistFrames]
    /\ ret_pick = NA
    /\ ret_cols = NA

RetPick ==
    /\ ret_pc = "lookback_done"
    /\ ret_pick' = pick_retention(ret_historical)
    /\ ret_pc' = "picked"
    /\ UNCHANGED <<ret_historical, ret_cols, other_than_ret>>

RetMerge ==
    /\ ret_pc = "picked"
    /\ ret_cols' = merged_retention(ret_historical, ret_pick, RetMainKey)
    /\ ret_pc' = "merged"
    /\ UNCHANGED <<ret_historical, ret_pick, other_than_ret>>

NextRet == RetPick \/ RetMerge

SpecRet == InitRet /\ [][NextRet]_vars

\* The retention kinds in the order of preference the claim gives.
ClaimedRetOrder == <<"ret_login", "ret_play", "ret_fpay", "ret_register">>

\* C13 (as claimed): the one retention frame used is the first non-empty
\* one in the order login, play, pay, register, and main's row gets no
\* value of any other retention kind.
C13_RetentionPreference ==
    ret_pc = "merged" =>
        LET non_empty == {i \in 1..4 : ret_historical[ClaimedRetOrder[i]] # <<>>}
            claimed == IF non_empty = {} THEN "none"
                       ELSE ClaimedRetOrder[SetMin(non_empty)]
        IN  /\ ret_pick = claimed
            /\ \A k \in RetHistKinds \ {claimed} : ret_cols[k] = {}

\* The <kind>_D1 cell a lookback of one day gives: the value of the most
\* recent row of the frame with the key and a date of selected_date - 1 day
\* or before, the empty cell without such a row.
ClaimedRetLookback(frame, key, n) ==
    LET old(r) == r.platform = key.platform /\ r.id = key.id /\ r.age >= n
        rows == SelectSeq(frame, old)
        newest(i) == \A j \in DOMAIN rows : rows[i].age <= rows[j].age
    IN  IF rows = <<>> THEN {}
        ELSE {rows[CHOOSE i \in DOMAIN rows : newest(i)].pct}

\* C26 (as claimed): the one-day retention value the merge attaches to
\* main's row is the value of the most recent row of the chosen retention
\* set with the row's key and a date <= selected_date - 1 day; rows later
\* than that cutoff do not enter it and it is no combination of several
\* dates.
C26_RetentionLookback ==
    (ret_pc = "merged" /\ ret_pick # "none") =>
        LET claimed == ClaimedRetLookback(ret_historical[ret_pick],
                                          RetMainKey, 1)
            cell == ret_cols[ret_pick]
        IN  /\ claimed = {} <=> cell = {}
            /\ \A c \in claimed : \A v \in cell : v.n = c * v.d

(***************************************************************************)
(* main: the first-pay-LTV lookback                                        *)
(***************************************************************************)

MaxHistRows == 2

\* need_map, in the order of its entries (lines 2133-2141).
need_map == <<1, 2, 3, 7, 14, 15, 30>>

\* A row of fpltv_historical: its platform and agent id, its age (the days
\* its date lies before selected_date) and its values: FPLTV_D<n> of the row
\* is 100 * n + val.  extract_ltv_value gives a number for every cell, so no cell
\* of a column the frame has is null.
HistAges == {0, 1, 3, 14, 30}

HistRows(keys) ==
    {[platform |-> p, id |-> i, age |-> a, val |-> a + 1] :
        p \in IF keys = "none" THEN {NA} ELSE {"P1", "P2"},
        i \in IF keys = "both" THEN {{Int64(0, 55)}, {Int64(0, 7)}} ELSE {{}},
        a \in HistAges}

\* The subsets of S of at most n elements.
RECURSIVE SetsUpTo(_, _)
SetsUpTo(S, n) ==
    IF n = 0 THEN {{}}
    ELSE LET P == SetsUpTo(S, n - 1)
         IN  P \cup {T \cup {x} : T \in P, x \in S}

fpltv_value(r, n) == 100 * n + r.val

\* The frame after the dedup of lines 1757-1768: one row for a date and
\* key.  keys says which key columns it has: "both" 盘口 and 总代号,
\* "platform" 盘口 only, "none" neither.  columns are the horizons n whose
\* FPLTV_D<n> column it has.
HistColumnSets == {{1, 2, 3, 7, 14, 15, 30}, {1, 2, 3, 7, 14, 30}, {1, 7}}

HistFrames ==
    UNION {[keys : {k}, columns : HistColumnSets,
            rows : {R \in SetsUpTo(HistRows(k), MaxHistRows) :
                       \A r1, r2 \in R :
                           (r1.platform = r2.platform /\ r1.id = r2.id
                            /\ r1.age = r2.age) => r1 = r2}] :
           k \in {"both", "platform", "none"}}

LtvMainKeys ==
    {[platform |-> "P1", id |-> {Int64(0, 55)}],
     [platform |-> "P2", id |-> {Int64(0, 7)}],
     [platform |-> NA, id |-> {Int64(0, 55)}]}

\* A lookup that takes the latest row, whatever its date.
latest_before_no_cutoff(h, key, n) ==
    LET same(r) == /\ r.platform = key.platform /\ key.platform # NA
                   /\ (h.keys = "both" => r.id = key.id)
        sub == {r \in h.rows : same(r)}
    IN  IF sub = {} THEN {}
        ELSE {fpltv_value(CHOOSE r \in sub : \A q \in sub : r.age <= q.age,
                          n)}

\* Lines 2154-2166 for one offset: the rows dated up to selected_date - n,
\* the last one of every key in date order (groupby leaves out a key with a
\* null), and the left join of its FPLTV_D<n> to main's row.
latest_before(h, key, n) ==
    LET same(r) == /\ r.platform = key.platform /\ key.platform # NA
                   /\ (h.keys = "both" => r.id = key.id)
        sub == {r \in h.rows : r.age >= n /\ same(r)}
    IN  IF sub = {} THEN {}
        ELSE {fpltv_value(CHOOSE r \in sub : \A q \in sub : r.age <= q.age,
                          n)}

InitLtv ==
    /\ IdleCls /\ IdleSel /\ IdleMet /\ IdleStd /\ IdleMap
    /\ IdleMain /\ IdlePick /\ IdleScn /\ IdleRet
    /\ IdleCost
    /\ IdleWr
    /\ IdleNd
    /\ IdleTail
    /\ IdleScr
    /\ IdleMg
    /\ ltv_pc = "platform_merged"
    /\ fpltv_historical \in HistFrames
    /\ ltv_key \in LtvMainKeys
    /\ need_i = 0
    /\ fpltv_cols = [n \in LtvDays |-> {}]
    /\ ltv_offset = NA

\* Lines 2121-2152: no lookback for an empty frame or one without platform
\* column.
LookbackEnter ==
    /\ ltv_pc = "platform_merged"
    /\ ltv_pc' = IF fpltv_historical.rows = {}
                    \/ fpltv_historical.keys = "none"
                 THEN "merged" ELSE "loop"
    /\ UNCHANGED <<fpltv_historical, ltv_key, need_i, fpltv_cols, ltv_offset,
                   other_than_ltv>>

\* Lines 2154-2166: one entry of need_map.
LookbackOffset ==
    /\ ltv_pc = "loop"
    /\ need_i < Len(need_map)
    /\ LET offset == need_map[need_i + 1]
       IN  fpltv_cols' =
               IF offset \in fpltv_historical.columns
               THEN [fpltv_cols EXCEPT
                        ![offset] = latest_before(fpltv_historical, ltv_key,
                                                  offset)]
               ELSE fpltv_cols
    /\ need_i' = need_i + 1
    /\ ltv_pc' = IF need_i + 1 = Len(need_map) THEN "merged" ELSE "loop"
    /\ UNCHANGED <<fpltv_historical, ltv_key, ltv_offset, other_than_ltv>>

\* Lines 2268 and 2291-2304: the day's LTV and the offset LTV columns.
LtvPassThrough ==
    /\ ltv_pc = "merged"
    /\ ltv_offset' = [ltv_d1 |-> num(fpltv_cols[1]),
                      offset |-> offset_ltv([fpltv |-> fpltv_cols])]
    /\ ltv_pc' = "done"
    /\ UNCHANGED <<fpltv_historical, ltv_key, need_i, fpltv_cols,
                   other_than_ltv>>

NextLtv == LookbackEnter \/ LookbackOffset \/ LtvPassThrough

SpecLtv == InitLtv /\ [][NextLtv]_vars

\* Rows of the history that have main's key (platform and agent id, or the
\* platform when the history has no agent id) and are dated at least n days
\* before the report's date.
C14_Eligible(n) ==
    {r \in fpltv_historical.rows :
        /\ r.age >= n
        /\ r.platform # NA /\ r.platform = ltv_key.platform
        /\ (fpltv_historical.keys = "both" => r.id = ltv_key.id)}

\* C14: for every horizon n whose column the history has, the value main's
\* row gets for n is FPLTV_D<n> of the latest history row of its key dated
\* at least n days before the report's date, and 0 when there is no such
\* row; the day's LTV and the 2, 3, 7 and 30 day offset LTV are these
\* values.
C14_LookbackByHorizon ==
    ltv_pc = "done" =>
        /\ \A n \in LtvDays :
               LET attached == num(fpltv_cols[n])
               IN  IF n \in fpltv_historical.columns /\ C14_Eligible(n) # {}
                   THEN \E r \in C14_Eligible(n) :
                            /\ \A q \in C14_Eligible(n) : r.age <= q.age
                            /\ attached = fpltv_value(r, n)
                   ELSE attached = 0
        /\ ltv_offset.ltv_d1 = num(fpltv_cols[1])
        /\ \A n \in {2, 3, 7, 30} : ltv_offset.offset[n] = num(fpltv_cols[n])

\* The row's key has a history row too young for horizon 3 and an older
\* one, whose value the row got.
C14_Witness ==
    /\ ltv_pc = "done"
    /\ 3 \in fpltv_historical.columns
    /\ \E r \in fpltv_historical.rows \ C14_Eligible(3) :
           r.age < 3 /\ r.platform = ltv_key.platform
    /\ \E r \in C14_Eligible(3) : ltv_offset.offset[3] = fpltv_value(r, 3)

(***************************************************************************)
(* main: the cost merge                                                    *)
(***************************************************************************)

MaxCostRows == 2

\* Aliases: spend 消耗, impr 展示, click 点击, withdraw 提现金额.
CostDataCols == {"spend", "impr", "click", "withdraw"}

\* A column of main is a name and the suffix a merge gave it: "" none,
\* "_x" / "_y" the default suffixes of DataFrame.merge, "_plat".
Col(c, suffix) == <<c, suffix>>

\* Rows of the cost frame (all of selected_date): cleaned channel name,
\* platform, and the number every data cell of the row holds (std_cost
\* fills a cell that is no number with 0.0).
CostRows ==
    [name_clean : {"X", "Z"}, platform : {"P1", "P2"}, val : {0, 5}]

\* The frame std_cost built: with or without the channel columns, with or
\* without the platform column, and the data columns the file had.
CostFrames ==
    [has_channel : BOOLEAN, has_platform : BOOLEAN,
     columns : {CostDataCols, CostDataCols \ {"withdraw"}},
     rows : UNION {[1..n -> CostRows] : n \in 0..MaxCostRows}]

\* main's row before the cost merge: channel X on platform P1; the agent
\* merge (lines 1988-2015) brought 提现金额 when the agent report has it.
CostMainRows ==
    {[c \in {} |-> {}],
     [c \in {Col("withdraw", "")} |-> {50}]}

CostMainKey == [name_clean |-> "X", platform |-> "P1"]

RECURSIVE sum_val(_)
sum_val(rows) ==
    IF rows = <<>> THEN 0 ELSE Head(rows).val + sum_val(Tail(rows))

\* groupby(key).sum() of the cost rows, looked up for main's row: NaN
\* without a row of the key.
cost_lookup(rows, field, key) ==
    LET same(r) == r[field] = key[field]
        sub == SelectSeq(rows, same)
    IN  IF sub = <<>> THEN {} ELSE {sum_val(sub)}

\* DataFrame.merge(how="left") of the data columns cs with value v into the
\* row m: a column both sides have is written twice, with the suffixes left
\* and right (a side whose suffix is "" keeps the name).
merge_cols(m, cs, v, left, right) ==
    LET both == {c \in cs : Col(c, "") \in DOMAIN m}
        kept == DOMAIN m \ {Col(c, "") : c \in both}
        new == kept \cup {Col(c, left) : c \in both}
                    \cup {Col(c, right) : c \in both}
                    \cup {Col(c, "") : c \in cs \ both}
    IN  [k \in new |->
            IF k \in kept THEN m[k]
            ELSE IF k[1] \in both /\ k[2] = left THEN m[Col(k[1], "")]
            ELSE v]

\* Lines 2074-2084.
merge_channel_cost(m, f) ==
    merge_cols(m, CostDataCols,
               cost_lookup(f.rows, "name_clean", CostMainKey), "_x", "_y")

\* Lines 2086-2101: the platform sums joined with the suffixes ("",
\* "_plat"); a column that got the suffix fills the nulls of its column and
\* is dropped.
merge_platform_cost(m, f) ==
    LET joined == merge_cols(m, CostDataCols,
                             cost_lookup(f.rows, "platform", CostMainKey),
                             "", "_plat")
        plat == {c \in CostDataCols : Col(c, "_plat") \in DOMAIN joined}
    IN  [k \in DOMAIN joined \ {Col(c, "_plat") : c \in plat} |->
            IF k[2] = "" /\ k[1] \in plat /\ joined[k] = {}
            THEN joined[Col(k[1], "_plat")]
            ELSE joined[k]]

InitCost ==
    /\ IdleCls /\ IdleSel /\ IdleMet /\ IdleStd /\ IdleMap
    /\ IdleMain /\ IdlePick /\ IdleScn /\ IdleRet /\ IdleLtv
    /\ IdleWr
    /\ IdleNd
    /\ IdleTail
    /\ IdleScr
    /\ IdleMg
    /\ cost_pc = "primary_merged"
    /\ cost \in CostFrames
    /\ cost_main \in CostMainRows

\* Lines 2074-2084; cost[[...]] raises KeyError when the frame lacks one of
\* the four data columns.
ChannelCostMerge ==
    /\ cost_pc = "primary_merged"
    /\ IF cost.rows # <<>> /\ cost.has_channel
       THEN IF cost.columns # CostDataCols
            THEN /\ cost_pc' = "aborted"
                 /\ UNCHANGED cost_main
            ELSE /\ cost_main' = merge_channel_cost(cost_main, cost)
                 /\ cost_pc' = "channel_merged"
       ELSE /\ cost_pc' = "channel_merged"
            /\ UNCHANGED cost_main
    /\ UNCHANGED <<cost, other_than_cost>>

\* Lines 2086-2101.
PlatformCostMerge ==
    /\ cost_pc = "channel_merged"
    /\ IF cost.rows # <<>> /\ cost.has_platform
       THEN IF cost.columns # CostDataCols
            THEN /\ cost_pc' = "aborted"
                 /\ UNCHANGED cost_main
            ELSE /\ cost_main' = merge_platform_cost(cost_main, cost)
                 /\ cost_pc' = "cost_merged"
       ELSE /\ cost_pc' = "cost_merged"
            /\ UNCHANGED cost_main
    /\ UNCHANGED <<cost, other_than_cost>>

NextCost == ChannelCostMerge \/ PlatformCostMerge

SpecCost == InitCost /\ [][NextCost]_vars

\* C15 (as claimed): when the platform-level join runs, a spend,
\* impressions, clicks or withdrawal column of main's row that the
\* channel-level join gave a value holds that value afterwards; the
\* platform-level value goes only into cells that are null.
C15_ChannelValueKept ==
    [][PlatformCostMerge =>
        \A c \in CostDataCols :
            LET channel_value ==
                    cost_lookup(cost.rows, "name_clean", CostMainKey)
            IN  (/\ cost.has_channel /\ cost.has_platform
                 /\ cost.rows # <<>>
                 /\ channel_value # {}
                 /\ cost_pc' = "cost_merged") =>
                    /\ Col(c, "") \in DOMAIN cost_main'
                    /\ cost_main'[Col(c, "")] = channel_value]_vars


(***************************************************************************)
(* Diagnostics report and output file (main, lines 2531-2610)              *)
(***************************************************************************)

\* The clock runs up to MaxTime seconds after the first attempt; main has up
\* to MaxOutRows rows.
MaxTime == 2
MaxOutRows == 2

\* output_path as os.path.splitext reads it: base name and extension.
OutputPaths ==
    {[base |-> "out", ext |-> ".xlsx"],
     [base |-> "dir/report.v2", ext |-> ".xlsx"],
     [base |-> "report", ext |-> ""]}

\* A path of the run: output_path itself, or the name of line 2586,
\* f"{base_name}_backup_{timestamp}{ext}", timestamp the clock's second.
plain_path(p) == [base |-> p.base, backup |-> {}, ext |-> p.ext]

backup_path_same_name(p, timestamp) == plain_path(p)

backup_path(p, timestamp) ==
    [base |-> p.base, backup |-> {timestamp}, ext |-> p.ext]

\* generation_summary.txt, in the working directory.
SummaryFile == [base |-> "generation_summary", backup |-> {}, ext |-> ".txt"]

\* missing_fields_report.txt, in the working directory.
DiagnosticsFile ==
    [base |-> "missing_fields_report", backup |-> {}, ext |-> ".txt"]

InitWrite ==
    /\ IdleCls /\ IdleSel /\ IdleMet /\ IdleStd /\ IdleMap /\ IdleMain
    /\ IdlePick /\ IdleScn /\ IdleRet /\ IdleLtv /\ IdleCost
    /\ IdleNd
    /\ IdleTail
    /\ IdleScr
    /\ IdleMg
    /\ wr_pc = "projected"
    /\ main_len \in 0..MaxOutRows
    /\ output_path \in OutputPaths
    /\ now \in 0..MaxTime
    /\ attempt = 0
    /\ final_output_path = plain_path(output_path)
    /\ write_success = FALSE
    /\ writer_calls = <<>>
    /\ files = {}
    /\ raised = NA

\* Lines 2531-2535: main returns when no row is left.
CheckRows ==
    /\ wr_pc = "projected"
    /\ wr_pc' = IF main_len = 0 THEN "no_output" ELSE "diagnostics"
    /\ UNCHANGED <<main_len, output_path, now, attempt, final_output_path,
                   write_success, writer_calls, files, raised, other_than_wr>>

\* Lines 2537-2559: missing_fields_report.txt is written inside try; an
\* exception of open() or of a write is printed and main goes on.
WriteDiagnostics ==
    /\ wr_pc = "diagnostics"
    /\ \E went_through \in BOOLEAN :
           files' = IF went_through THEN files \cup {DiagnosticsFile}
                                   ELSE files
    /\ wr_pc' = "loop"
    /\ UNCHANGED <<main_len, output_path, now, attempt, final_output_path,
                   write_success, writer_calls, raised, other_than_wr>>

\* Lines 2573-2579: the writer goes through; the loop is left.
WriteSucceeds ==
    /\ wr_pc = "loop"
    /\ writer_calls' = Append(writer_calls,
                              [path |-> final_output_path, ended |-> "ok"])
    /\ files' = files \cup {final_output_path}
    /\ write_success' = TRUE
    /\ wr_pc' = "after_loop"
    /\ UNCHANGED <<main_len, output_path, now, attempt, final_output_path,
                   raised, other_than_wr>>

\* Lines 2573-2576, an exception on the way: pd.ExcelWriter opens the file
\* when it is made and saves the workbook when the with block is left, by
\* an exception too.  An exception of the constructor's open() leaves no
\* file; one of to_excel or of the save leaves the file on disk.
writer_failed(saved) ==
    IF saved THEN files \cup {final_output_path} ELSE files

\* Lines 2580-2595: the writer raises PermissionError.  On the first two
\* turns the path becomes the backup name of the current second and the loop
\* goes on; on the third the exception leaves main.
WritePermissionError ==
    /\ wr_pc = "loop"
    /\ writer_calls' =
           Append(writer_calls,
                  [path |-> final_output_path, ended |-> "PermissionError"])
    /\ \E saved \in BOOLEAN : files' = writer_failed(saved)
    /\ IF attempt < 2
       THEN \E t \in now..MaxTime :
                /\ now' = t
                /\ final_output_path' = backup_path(output_path, t)
                /\ attempt' = attempt + 1
                /\ UNCHANGED <<wr_pc, raised>>
       ELSE /\ wr_pc' = "raised"
            /\ raised' = "PermissionError"
            /\ UNCHANGED <<now, final_output_path, attempt>>
    /\ UNCHANGED <<main_len, output_path, write_success, other_than_wr>>

\* Lines 2596-2599: any other exception of the writer leaves main at once,
\* with the output file on disk when the writer had opened it.
WriteOtherError ==
    /\ wr_pc = "loop"
    /\ writer_calls' = Append(writer_calls,
                              [path |-> final_output_path, ended |-> "Exception"])
    /\ \E saved \in BOOLEAN : files' = writer_failed(saved)
    /\ wr_pc' = "raised"
    /\ raised' = "Exception"
    /\ UNCHANGED <<main_len, output_path, now, attempt, final_output_path,
                   write_success, other_than_wr>>

\* Lines 2601-2610: main returns when no write went through, else writes
\* generation_summary.txt.  Lines 2606-2609 stand in no try: when open()
\* fails its OSError leaves main without the file; when open() made the
\* file and a write or the close of the with block fails, the OSError
\* leaves main with the file on disk (empty or cut short).  The output file
\* and the diagnostics report stay as they were written.
WriteSummary ==
    /\ wr_pc = "after_loop"
    /\ IF ~write_success
       THEN /\ wr_pc' = "returned"
            /\ UNCHANGED <<files, raised>>
       ELSE \E opened \in BOOLEAN, written \in BOOLEAN :
                /\ ~opened => ~written
                /\ files' = IF opened THEN files \cup {SummaryFile} ELSE files
                /\ IF written
                   THEN /\ wr_pc' = "done"
                        /\ UNCHANGED raised
                   ELSE /\ wr_pc' = "raised"
                        /\ raised' = "OSError"
    /\ UNCHANGED <<main_len, output_path, now, attempt, final_output_path,
                   write_success, writer_calls, other_than_wr>>

NextWrite ==
    \/ CheckRows \/ WriteDiagnostics
    \/ WriteSucceeds \/ WritePermissionError \/ WriteOtherError \/ WriteSummary

SpecWrite == InitWrite /\ [][NextWrite]_vars

\* C20: the writer is called at most 3 times; the first call goes to
\* output_path and every later call to a "_backup_<timestamp>" name made from
\* output_path; a call is followed by another one only when it ended with
\* PermissionError, so any other exception leaves main at once and a
\* PermissionError leaves main on the third call; generation_summary.txt is
\* on disk only when a call went through and no exception of the writer
\* left main (an OSError of the summary's own write may still follow).
C20_WriteRetries ==
    LET n == Len(writer_calls)
    IN  /\ n <= 3
        /\ n >= 1 => writer_calls[1].path = plain_path(output_path)
        /\ \A i \in 2..n :
               /\ writer_calls[i - 1].ended = "PermissionError"
               /\ writer_calls[i].path.backup # {}
               /\ writer_calls[i].path # plain_path(output_path)
               /\ writer_calls[i].path.base = output_path.base
               /\ writer_calls[i].path.ext = output_path.ext
        /\ raised = "PermissionError" <=>
               (n = 3 /\ writer_calls[3].ended = "PermissionError")
        /\ raised = "Exception" <=>
               (n >= 1 /\ writer_calls[n].ended = "Exception")
        /\ SummaryFile \in files =>
               /\ n >= 1 /\ writer_calls[n].ended = "ok"
               /\ writer_calls[n].path \in files
               /\ raised \notin {"PermissionError", "Exception"}

\* Two PermissionErrors, the third call goes through on a backup name, and
\* the summary is written.
C20_Witness ==
    /\ wr_pc = "done"
    /\ Len(writer_calls) = 3
    /\ writer_calls[1].ended = "PermissionError"
    /\ writer_calls[2].ended = "PermissionError"
    /\ writer_calls[3].ended = "ok"
    /\ writer_calls[3].path.backup # {}
    /\ SummaryFile \in files

\* C21 (as claimed): whenever main has an output row, the diagnostics report
\* is on disk before the first call of the writer, so that it is there
\* whatever the writer does.
C21_DiagnosticsBeforeOutput ==
    (main_len > 0 /\ writer_calls # <<>>) => DiagnosticsFile \in files


(***************************************************************************)
(* One retention file next to a valid agent report (main, lines 1420-1443, *)
(* 1462-1483, 2179-2225, 2306-2339)                                        *)
(***************************************************************************)

\* The file's name: one piece that classify_file takes for a retention kind.
NdFileNames ==
    {{p} : p \in {q \in NameParts : classify_file({q}) \in RetHistKinds}}

\* The file's table: any columns but platform and agent id, up to MaxStdRows
\* rows; every row holds 40% in its D1 column.  firstpay_u in the column set
\* says that the file has a 首充人数 column, 5 in each of its cells.
NdTables ==
    UNION {[columns : {cols, cols \cup {"firstpay_u"}},
            rows : UNION {[1..n -> RowsOf(cols)] : n \in 0..MaxStdRows}] :
           cols \in SUBSET {"date", "channel", "fission"}}

NdCells == [d1 |-> 40, firstpay_u |-> 5]

\* The agent report's row: register count and first-pay count, platform P1
\* and agent id 55.
NdAgentRows == {[register |-> 100, firstpay_u |-> 20],
                [register |-> 0, firstpay_u |-> 0]}

\* Lines 1089-1125 (PRIMARY_FIRSTPAY_SOURCE = "all"): nothing without a date
\* column or without a fission-type column; else the rows of type "all" with
\* a date: the id from the agent-id column, or name, cleaned name and tail
\* id from the channel column; 一级首充人数 (primary_u) only when the file has
\* a first-pay count column.
extract_primary_firstpay(d) ==
    IF "date" \notin d.columns \/ "fission" \notin d.columns
    THEN Frame({}, <<>>)
    ELSE LET is_all(r) == r.fission = "zh_all"
             by_id == "agent_id" \in d.columns
             by_channel == ~by_id /\ "channel" \in d.columns
             has_firstpay == "firstpay_u" \in d.columns
             out(r) ==
                 [date |-> normalize_date(r.date),
                  name |-> IF by_channel THEN r.channel ELSE NA,
                  name_clean |-> IF by_channel
                                 THEN strip_tail_parenthesis(r.channel)
                                 ELSE NA,
                  id |-> IF by_id THEN r.agent_id
                         ELSE IF by_channel
                              THEN extract_agent_id_from_tail(r.channel)
                              ELSE {},
                  platform |-> NA,
                  primary_u |-> IF has_firstpay THEN {NdCells.firstpay_u} ELSE {}]
             kept(o) == o.date # NA
         IN  Frame({"date"}
                       \cup (IF by_id THEN {"id"}
                             ELSE IF by_channel
                                  THEN {"name", "name_clean", "id"}
                                  ELSE {})
                       \cup (IF has_firstpay THEN {"primary_u"} ELSE {}),
                   SelectSeq(map_rows(SelectSeq(d.rows, is_all), out), kept))

\* A cell of a frame's row is null; a column the rows carry no field for is
\* a data column, filled in every row.
is_null(r, c) ==
    /\ c \in DOMAIN r
    /\ IF c \in {"id", "primary_u"} THEN r[c] = {} ELSE r[c] = NA

\* Lines 251-264, with required columns: the frame has columns and rows, a
\* row that is not null throughout, every required column, and a row that
\* is not null in all required columns at once.
is_meaningful_df(f, required_cols) ==
    /\ f.columns # {} /\ f.rows # <<>>
    /\ \E i \in DOMAIN f.rows : \E c \in f.columns : ~is_null(f.rows[i], c)
    /\ required_cols \subseteq f.columns
    /\ \E i \in DOMAIN f.rows :
           \E c \in required_cols : ~is_null(f.rows[i], c)

\* Lines 1462-1483: is_meaningful_df with the three key columns for the
\* login, first-pay and play lists; the register list is concatenated as it
\* is.
nd_concat(list, k) ==
    LET meaningful(f) == is_meaningful_df(f, {"date", "platform", "id"})
        kept == IF k = "ret_register" THEN list
                ELSE SelectSeq(list, meaningful)
    IN  IF kept = <<>> THEN Frame({"date"}, <<>>) ELSE concat(kept)

\* Lines 1485-1503 and 1728-1732: the frames that pass is_clean_df one
\* after the other; with date, id and 一级首充人数 columns one row per
\* (date, id) with the sum (groupby drops the rows without id); then the
\* rows of the selected date.
primary_firstpay_of(list, report_date) ==
    LET is_clean_df(f) ==
            /\ is_meaningful_df(f, {"date", "id"})
            /\ \E c \in f.columns :
                   \E i \in DOMAIN f.rows : ~is_null(f.rows[i], c)
        non_empty == SelectSeq(list, is_clean_df)
        all == IF non_empty = <<>> THEN Frame({"date", "id"}, <<>>)
               ELSE concat(non_empty)
        keys == {<<all.rows[i].date, all.rows[i].id>> :
                    i \in {j \in DOMAIN all.rows : all.rows[j].id # {}}}
        RECURSIVE sum_of(_, _)
        sum_of(rows, k) ==
            IF rows = <<>> THEN 0
            ELSE (IF /\ Head(rows).date = k[1] /\ Head(rows).id = k[2]
                     /\ Head(rows).primary_u # {}
                  THEN id_of(Head(rows).primary_u) ELSE 0)
                 + sum_of(Tail(rows), k)
        sorted == sort_keys(keys)
        summed == IF all.rows # <<>>
                     /\ {"date", "id", "primary_u"} \subseteq all.columns
                  THEN Frame({"date", "id", "primary_u"},
                             [i \in DOMAIN sorted |->
                                 [date |-> sorted[i][1], id |-> sorted[i][2],
                                  primary_u |-> {sum_of(all.rows, sorted[i])}]])
                  ELSE all
        of_date(r) == r.date = report_date
    IN  Frame(summed.columns, SelectSeq(summed.rows, of_date))

\* Lines 2043-2060 for main's row (merge keys date and id, main's id being
\* set): nothing is joined from an empty frame or from one without the id
\* column; primary_firstpay[cols] raises KeyError when the frame has no
\* 一级首充人数 column; else the cell of the row of main's key, NaN without
\* such a row.
merge_primary(p, key) ==
    IF p.rows = <<>> \/ ~({"date", "id"} \subseteq p.columns)
    THEN [raised |-> FALSE, columns |-> {}, primary_u |-> {}]
    ELSE IF "primary_u" \notin p.columns
    THEN [raised |-> TRUE, columns |-> {}, primary_u |-> {}]
    ELSE LET same_key(r) == r.id = key.id
             rows == SelectSeq(p.rows, same_key)
         IN  [raised |-> FALSE, columns |-> {"primary_u"},
              primary_u |-> IF rows = <<>> THEN {} ELSE rows[1].primary_u]

\* Lines 2191-2223 for main's row: the merge keys the picked frame allows,
\* the mean of D1 over the rows of the key, NaN without such a row.
nd_lookup(f, key) ==
    LET by_id == "id" \in f.columns
        by_platform == "platform" \in f.columns
        same_key(r) == /\ by_id => r.id = key.id
                       /\ by_platform => r.platform = key.platform
        rows == SelectSeq(f.rows, same_key)
    IN  IF ~by_id /\ ~by_platform THEN {}
        ELSE IF rows = <<>> THEN {}
        ELSE {(NdCells.d1 * Len(rows)) \div Len(rows)}

InitNd ==
    /\ IdleCls /\ IdleSel /\ IdleMet /\ IdleStd /\ IdleMap /\ IdleMain
    /\ IdlePick /\ IdleScn /\ IdleRet /\ IdleLtv /\ IdleCost /\ IdleWr
    /\ IdleTail
    /\ IdleScr
    /\ IdleMg
    /\ nd_pc = "start"
    /\ nd_path \in NdFileNames
    /\ nd_fname \in FileNameParts
    /\ nd_df \in NdTables
    /\ nd_agent \in NdAgentRows
    /\ nd_mode \in {"formula", "retention"}
    /\ nd_kind = NA
    /\ nd_ret = NA
    /\ nd_primary = <<>>
    /\ nd_main = NA
    /\ nd_out = NA

\* Lines 1358-1363: classify_file_smart; the name decides.
NdClassify ==
    /\ nd_pc = "start"
    /\ nd_kind' = classify_file(nd_path)
    /\ nd_pc' = "classified"
    /\ UNCHANGED <<nd_path, nd_fname, nd_df, nd_agent, nd_mode, nd_ret,
                   nd_primary, nd_main, nd_out, other_than_nd>>

\* Lines 1420-1443: std_retention on the file, its result kept when it is
\* not empty; for a login-retention file extract_primary_firstpay as well.
\* An exception leaves main.
NdStandardize ==
    /\ nd_pc = "classified"
    /\ LET ret_result == std_retention(nd_df, nd_fname)
           primary_fp == extract_primary_firstpay(nd_df)
       IN  IF ret_result.raised
           THEN /\ nd_pc' = "raised"
                /\ UNCHANGED <<nd_ret, nd_primary>>
           ELSE /\ nd_ret' = [k \in RetHistKinds |->
                                 IF k = nd_kind /\ ret_result.rows # <<>>
                                 THEN <<ret_result>> ELSE <<>>]
                /\ nd_primary' = IF nd_kind = "ret_login"
                                    /\ primary_fp.rows # <<>>
                                 THEN <<primary_fp>> ELSE <<>>
                /\ nd_pc' = "standardized"
    /\ UNCHANGED <<nd_path, nd_fname, nd_df, nd_agent, nd_mode, nd_kind,
                   nd_main, nd_out, other_than_nd>>

\* Lines 1462-1503, 1728-1732, 2043-2060, 2179-2225, 2256-2260 and
\* 2306-2339: the retention frames and the primary first-pay frame; the
\* primary first-pay count joined to main's row, a KeyError of that join
\* leaving main; the retention frame picked and its D1 joined to main's
\* row; the 一级首充人数 column made when the join brought none and its
\* null cells set to 0 (num(col, 0)); the 15 offset columns.
NdMergeAndOffsets ==
    /\ nd_pc = "standardized"
    /\ LET frames == [k \in RetHistKinds |-> nd_concat(nd_ret[k], k)]
           primary_firstpay == primary_firstpay_of(nd_primary, TARGET_DATE)
           joined == merge_primary(primary_firstpay, RetMainKey)
           pick == pick_retention([k \in RetHistKinds |-> frames[k].rows])
           cell(c) == IF c[1] = pick /\ c[2] = 1
                      THEN nd_lookup(frames[pick], RetMainKey)
                      ELSE {}
           rt == fpu_reg_ratio(nd_agent.firstpay_u, nd_agent.register)
       IN  IF joined.raised
           THEN /\ nd_pc' = "raised"
                /\ UNCHANGED <<nd_main, nd_out>>
           ELSE /\ nd_main' = [columns |-> joined.columns \cup {"primary_u"},
                               primary_u |-> {num(joined.primary_u)}]
                /\ nd_out' = [c \in RetPrefixes \X RetDays |->
                                  apply_offset(num(cell(c)), nd_mode, rt)]
                /\ nd_pc' = "done"
    /\ UNCHANGED <<nd_path, nd_fname, nd_df, nd_agent, nd_mode, nd_kind,
                   nd_ret, nd_primary, other_than_nd>>

NextNd == NdClassify \/ NdStandardize \/ NdMergeAndOffsets

SpecNoDate == InitNd /\ [][NextNd]_vars

\* C23: with a retention file that has no date column the run does not
\* raise: the file name gives the retention kind, std_retention (and
\* extract_primary_firstpay) hand back nothing, and the output row holds 0 in
\* every offset-retention column of that kind.
C23_NoDateRetentionFile ==
    "date" \notin nd_df.columns =>
        /\ nd_pc # "raised"
        /\ nd_pc # "start" => nd_kind \in RetHistKinds
        /\ nd_pc \in {"standardized", "done"} =>
               /\ nd_ret[nd_kind] = <<>>
               /\ nd_primary = <<>>
        /\ nd_pc = "done" =>
               \A c \in RetPrefixes \X RetDays :
                   c[1] = nd_kind => nd_out[c].n = 0

\* A login-retention file with a row and no date column, the run at its end.
C23_Witness ==
    /\ nd_pc = "done"
    /\ nd_kind = "ret_login"
    /\ "date" \notin nd_df.columns
    /\ nd_df.rows # <<>>
    /\ nd_out[<<"ret_login", 1>>].n = 0


(***************************************************************************)
(* Tail ids of channel names (lines 514-549)                               *)
(***************************************************************************)

\* Bounds of the names: characters before the tail groups, digits in a group.
MaxBodyLen == 2
MaxDigits == 2

\* Characters.  Aliases: "f2" the full-width digit two, "fo" and "fc" the
\* full-width parentheses.
HalfDigits == {"1", "2"}
TailDigits == {"1", "f2"}
BodyChars == {"A", " ", "1", "f2"}

SeqsUpTo(S, n) == UNION {[1..m -> S] : m \in 0..n}

\* A group in parentheses: half-width, full-width or mixed; digits or none.
TailGroups ==
    {<<>>}
        \cup {<<p[1]>> \o d \o <<p[2]>> :
                 p \in {<<"(", ")">>, <<"fo", "fc">>, <<"(", "fc">>},
                 d \in SeqsUpTo(TailDigits, MaxDigits)}

\* Names: some characters, up to two groups, and spaces or not at the end.
TailNames ==
    {b \o g \o h \o t : b \in SeqsUpTo(BodyChars, MaxBodyLen),
                        g \in TailGroups, h \in TailGroups,
                        t \in {<<>>, <<" ">>}}

\* Lines 514-517: full-width digits become half-width, nothing else changes.
to_half_width(s) == [i \in DOMAIN s |-> IF s[i] = "f2" THEN "2" ELSE s[i]]

\* str.strip().
strip(s) ==
    LET solid == {i \in DOMAIN s : s[i] # " "}
    IN  IF solid = {} THEN <<>>
        ELSE SubSeq(s, CHOOSE i \in solid : \A j \in solid : i <= j,
                       CHOOSE i \in solid : \A j \in solid : i >= j)

\* int() of a run of half-width digits.
RECURSIVE int_of(_)
int_of(d) ==
    IF d = <<>> THEN 0
    ELSE 10 * int_of(SubSeq(d, 1, Len(d) - 1))
             + (IF d[Len(d)] = "1" THEN 1 ELSE 2)

\* pat.search(s) for a pattern of TAIL_PATTERNS (line 531), open (\d+) close
\* \s*$, over the digits of D: where the match starts and the digits it
\* holds, or no match.
tail_match(s, open, close, D) ==
    LET solid == {i \in DOMAIN s : s[i] # " "}
        e == IF solid = {} THEN 0
             ELSE CHOOSE i \in solid : \A j \in solid : i >= j
        starts == {b \in 1..(e - 2) :
                      /\ s[b] = open
                      /\ \A i \in (b + 1)..(e - 1) : s[i] \in D}
    IN  IF e >= 3 /\ s[e] = close /\ starts # {}
        THEN LET b == CHOOSE x \in starts : TRUE
             IN  [found |-> TRUE, start |-> b, digits |-> SubSeq(s, b + 1, e - 1)]
        ELSE [found |-> FALSE, start |-> 0, digits |-> <<>>]

\* pat.sub("", s).strip()
sub_tail(s, open, close) ==
    LET m == tail_match(s, open, close, HalfDigits)
    IN  strip(IF m.found THEN SubSeq(s, 1, m.start - 1) ELSE s)

\* Lines 533-541, on the characters of the name.
extract_tail_id(name) ==
    LET s == strip(to_half_width(name))
        half == tail_match(s, "(", ")", HalfDigits)
        full == tail_match(s, "fo", "fc", HalfDigits)
    IN  IF half.found THEN {int_of(half.digits)}
        ELSE IF full.found THEN {int_of(full.digits)}
        ELSE {}

\* Lines 543-549, on the characters of the name: both patterns are applied,
\* one after the other.
strip_tail(name) ==
    sub_tail(sub_tail(strip(to_half_width(name)), "(", ")"), "fo", "fc")

InitTail ==
    /\ IdleCls /\ IdleSel /\ IdleMet /\ IdleStd /\ IdleMap /\ IdleMain
    /\ IdlePick /\ IdleScn /\ IdleRet /\ IdleLtv /\ IdleCost /\ IdleWr
    /\ IdleNd
    /\ IdleScr
    /\ IdleMg
    /\ tail_pc = "start"
    /\ ch_name \in TailNames
    /\ tail_id = {}
    /\ tail_clean = <<>>

ExtractTailId ==
    /\ tail_pc = "start"
    /\ tail_id' = extract_tail_id(ch_name)
    /\ tail_pc' = "extracted"
    /\ UNCHANGED <<ch_name, tail_clean, other_than_tail>>

StripTail ==
    /\ tail_pc = "extracted"
    /\ tail_clean' = strip_tail(ch_name)
    /\ tail_pc' = "done"
    /\ UNCHANGED <<ch_name, tail_id, other_than_tail>>

NextTail == ExtractTailId \/ StripTail

SpecTail == InitTail /\ [][NextTail]_vars

\* The tail the claim speaks of, read off the name as it is written: a group
\* "(digits)" or its full-width form, digits of either width, at the end of
\* the name but for whitespace.
ClaimedTail(name) ==
    LET half == tail_match(name, "(", ")", HalfDigits \cup TailDigits)
        full == tail_match(name, "fo", "fc", HalfDigits \cup TailDigits)
    IN  IF half.found THEN half ELSE full

\* C24 (as claimed): for a name with such a tail the id is the integer of
\* its digits and the cleaned name is the name without that group, trimmed;
\* for a name without one the id is None and the cleaned name is the
\* trimmed name.  Names are compared with their digits in half width, as
\* both functions hand them back.
C24_TailIdAndCleanName ==
    tail_pc = "done" =>
        LET t == ClaimedTail(ch_name)
        IN  IF t.found
            THEN /\ tail_id = {int_of(to_half_width(t.digits))}
                 /\ tail_clean =
                        to_half_width(strip(SubSeq(ch_name, 1, t.start - 1)))
            ELSE /\ tail_id = {}
                 /\ tail_clean = to_half_width(strip(ch_name))


(***************************************************************************)
(* newplatform_auto_report.py: scroll_table_to_end                         *)
(***************************************************************************)

MaxScrolls == 3
MaxIdleLoops == 2
MaxPageRows == 1
MaxHeight == 2

\* What one look at the page gives: the number of rows found in the table
\* and the scrollHeight of its container.
PageViews == [rows : 0..MaxPageRows, height : 1..MaxHeight]

\* Line 339 with the comparison of the row counts only.
idle_step_rows_only(current_row_count, new_height, row_count, height) ==
    current_row_count = row_count

\* Line 339: the step found nothing new.
idle_step(current_row_count, new_height, row_count, height) ==
    current_row_count = row_count /\ new_height = height

InitScroll ==
    /\ IdleCls /\ IdleSel /\ IdleMet /\ IdleStd /\ IdleMap /\ IdleMain
    /\ IdlePick /\ IdleScn /\ IdleRet /\ IdleLtv /\ IdleCost /\ IdleWr
    /\ IdleNd /\ IdleTail
    /\ IdleMg
    /\ scr_pc = "start"
    /\ max_idle_loops \in 1..MaxIdleLoops
    /\ max_scrolls \in 1..MaxScrolls
    /\ scroll_index = 0
    /\ last_height = 0
    /\ last_row_count = 0
    /\ idle_loops = 0
    /\ page = <<>>
    /\ scr_ret = {}

\* Lines 311-316: the table container is waited for (a TimeoutException
\* leaves the function when it never shows), its scrollHeight is read and
\* the counters start at 0.  page[1] is what the loop compares its first
\* step with.
ScrollWaitTable ==
    /\ scr_pc = "start"
    /\ \/ /\ scr_pc' = "raised"
          /\ UNCHANGED <<last_height, page>>
       \/ \E h \in 1..MaxHeight :
             /\ last_height' = h
             /\ page' = <<[rows |-> 0, height |-> h]>>
             /\ scr_pc' = "loop"
    /\ UNCHANGED <<max_idle_loops, max_scrolls, scroll_index, last_row_count,
                   idle_loops, scr_ret, other_than_scr>>

\* Lines 320-323, the first half of a pass: the for statement takes the
\* next scroll_index, the container is scrolled to its end, and the function
\* sleeps (pause, and a second more after a click on a load-more button)
\* while the page loads what it will.
ScrollSend ==
    /\ scr_pc = "loop"
    /\ scroll_index < max_scrolls
    /\ scroll_index' = scroll_index + 1
    /\ scr_pc' = "scrolled"
    /\ UNCHANGED <<max_idle_loops, max_scrolls, last_height, last_row_count,
                   idle_loops, page, scr_ret, other_than_scr>>

\* Lines 325-347, the second half: the rows and the scrollHeight are read
\* as the page shows them by then, the step is counted as idle or the
\* counter reset, and the loop breaks or remembers what was seen.
ScrollLook ==
    /\ scr_pc = "scrolled"
    /\ \E view \in PageViews :
          LET current_row_count == view.rows
              new_height == view.height
              idle == idle_step(current_row_count, new_height,
                                last_row_count, last_height)
              ends == idle /\ idle_loops + 1 >= max_idle_loops
          IN  /\ page' = Append(page, view)
              /\ idle_loops' = IF idle THEN idle_loops + 1 ELSE 0
              /\ scr_pc' = IF ends THEN "break" ELSE "loop"
              /\ last_height' = IF ends THEN last_height ELSE new_height
              /\ last_row_count' = IF ends THEN last_row_count
                                           ELSE current_row_count
    /\ UNCHANGED <<max_idle_loops, max_scrolls, scroll_index, scr_ret,
                   other_than_scr>>

\* Line 349, after the break or after the last pass of the loop.
ScrollReturn ==
    /\ \/ scr_pc = "break"
       \/ scr_pc = "loop" /\ scroll_index = max_scrolls
    /\ scr_ret' = {last_row_count}
    /\ scr_pc' = "returned"
    /\ UNCHANGED <<max_idle_loops, max_scrolls, scroll_index, last_height,
                   last_row_count, idle_loops, page, other_than_scr>>

NextScroll == ScrollWaitTable \/ ScrollSend \/ ScrollLook \/ ScrollReturn

SpecScroll == InitScroll /\ [][NextScroll]_vars

\* The driver answers every call and time.sleep returns, so the function
\* goes on as long as it has a step to take.
SpecScrollLive == SpecScroll /\ WF_vars(NextScroll)

\* Step k of the pages seen so far showed what the step before showed (the
\* first step is compared with 0 rows and the height read before the loop).
scroll_unchanged(k) == page[k + 1] = page[k]

\* The max_idle_loops steps up to step k were all unchanged.
scroll_idle_run(k) ==
    /\ k >= max_idle_loops
    /\ \A j \in (k - max_idle_loops + 1)..k : scroll_unchanged(j)

\* steps: the passes of the loop that have looked at the page; between the
\* scroll and the look of a pass scroll_index is one ahead of them.
C28_ScrollState ==
    scr_pc \in {"loop", "scrolled", "break", "returned"} =>
        LET steps == Len(page) - 1
        IN  /\ scroll_index <= max_scrolls
            /\ scroll_index = IF scr_pc = "scrolled" THEN steps + 1 ELSE steps
            /\ \A k \in 1..(steps - 1) : ~scroll_idle_run(k)
            /\ scr_pc \in {"loop", "scrolled"} =>
                  /\ steps > 0 => ~scroll_idle_run(steps)
                  /\ (steps > 0 /\ ~scroll_unchanged(steps)) => idle_loops = 0
            /\ scr_pc \in {"break", "returned"} =>
                  (steps < max_scrolls => scroll_idle_run(steps))
            /\ scr_pc = "returned" =>
                  /\ steps > 0
                  /\ scr_ret = {page[steps + 1].rows}

\* C28: scroll_table_to_end ends (it returns, or raises when the table never
\* shows) and takes at most max_scrolls steps; it takes no step after
\* max_idle_loops steps in a row that left row count and scrollHeight
\* unchanged and stops before max_scrolls only after such a run, a changed
\* step sets the idle counter to 0, and it returns the row count of the last
\* step it took.
C28_ScrollTerminates ==
    /\ []C28_ScrollState
    /\ <>(scr_pc \in {"returned", "raised"})

\* The function stopped early: it returned after fewer than max_scrolls
\* steps, some of them with a change, and the table had rows.
C28_Witness ==
    /\ scr_pc = "returned"
    /\ Len(page) - 1 < max_scrolls
    /\ \E k \in 1..(Len(page) - 1) : ~scroll_unchanged(k)
    /\ scr_ret # {0}


(***************************************************************************)
(* main: the left joins of the merge stage, the ratios and the final       *)
(* aggregation (lines 1976-2527)                                           *)
(***************************************************************************)

MaxMergeRows == 2

\* Rows of main as init_main leaves them, all of selected_date: a row that
\* came from the agent report, a key supplemented from a retention file
\* (the agent report has no name for its id), a supplemented key without
\* id, which the stable-id fill leaves without id, and a second row of the
\* agent report.  The rows of the agent report come first, in the order of
\* their ids (the dedup of 1549), the supplemented keys after them.
MgMainRows ==
    <<[platform |-> "P1", id |-> {Int64(0, 55)}, name_clean |-> "X"],
      [platform |-> "P2", id |-> {Int64(0, 7)}, name_clean |-> NA],
      [platform |-> "P1", id |-> {}, name_clean |-> NA],
      [platform |-> "P2", id |-> {Int64(0, 7)}, name_clean |-> "Y"]>>

MgMains ==
    {<<MgMainRows[1]>>, <<MgMainRows[1], MgMainRows[2]>>, <<MgMainRows[3]>>,
     <<MgMainRows[1], MgMainRows[3]>>, <<MgMainRows[4], MgMainRows[1]>>}

\* The frames main is joined with, each filtered to selected_date
\* (1636-1732).  No key cell of these frames is null: the standardizers and
\* the dedups before the merge stage drop such rows.
MgRowsOf(kinds) == UNION {[1..n -> kinds] : n \in 0..MaxMergeRows}

\* The agent frame after its dedup by date and id (1509-1550): its rows are
\* rows of main.  Aliases: register 注册人数, firstpay_u 首充人数,
\* firstpay_a 当日首充金额.
MgAgents(m) ==
    LET in_main(r) == \E i \in DOMAIN m : /\ m[i].id = r.id
                                          /\ m[i].name_clean = r.name_clean
    IN  {<<>>,
         SelectSeq(<<[id |-> {Int64(0, 7)}, name_clean |-> "Y",
                      register |-> 50, firstpay_u |-> 10,
                      firstpay_a |-> 100],
                     [id |-> {Int64(0, 55)}, name_clean |-> "X",
                      register |-> 100, firstpay_u |-> 20,
                      firstpay_a |-> 200]>>, in_main)}

\* The daily frame after its dedup by date and id (1567-1584): one row per
\* id, with the active-payer count only or with the first-pay columns as
\* well (std_daily, 1080-1086: the columns its file has).  Alias:
\* pay_active_u 活跃充值人数.
MgDailies ==
    LET rows(with_firstpay) ==
            LET data == IF with_firstpay
                        THEN [pay_active_u |-> 30, firstpay_u |-> 8,
                              firstpay_a |-> 40]
                        ELSE [pay_active_u |-> 30]
            IN  <<[id |-> {Int64(0, 55)}, name_clean |-> "X"] @@ data,
                  [id |-> {Int64(0, 7)}, name_clean |-> "X"] @@ data>>
    IN  {<<>>} \cup UNION {{SubSeq(rows(w), 1, 1), rows(w)} : w \in BOOLEAN}

\* primary_firstpay after its groupby of date and id (1501-1503).  Alias:
\* primary_u 一级首充人数.
MgPrimaries == {<<>>, <<[id |-> {Int64(0, 55)}, primary_u |-> 5]>>}

\* Alias: spend 消耗.
MgCosts ==
    MgRowsOf({[name_clean |-> "X", platform |-> "P1", spend |-> 1000]})

\* The platform frame: the rows of every platform report, and whether
\* std_platform found one of the LTV columns (1054-1057).
MgPlatforms ==
    {[has_ltv |-> h, rows |-> r] :
        h \in BOOLEAN, r \in MgRowsOf({[platform |-> "P1"]})}

\* fpltv_historical: its rows by platform, id and age in days, with the
\* columns FPLTV_D1 and FPLTV_D7.
MgFpltvs ==
    {[keys |-> k, columns |-> {1, 7}, rows |-> r] :
        k \in {"both", "platform"},
        r \in MgRowsOf({[platform |-> "P1", id |-> {Int64(0, 55)}, age |-> 7]})}

\* The retention frame picked: the rows of all dates up to selected_date.
MgRets == MgRowsOf({[platform |-> "P1", id |-> {Int64(0, 55)}]})

mg_same(m, r, keys) == \A k \in keys : m[k] = r[k]

\* tmp = frame[keys + data_cols]
project(r, cols) == [c \in cols \cap DOMAIN r |-> r[c]]

\* DataFrame.merge(right, on=keys, how="left"): every left row once for
\* each right row of its key, with the columns of that row, and once
\* without them when there is none, in the left order.
left_join(rows, right, keys) ==
    LET hit(m) == {j \in DOMAIN right : mg_same(m, right[j], keys)}
        RECURSIVE pairs(_, _)
        pairs(m, j) == IF j > Len(right) THEN <<>>
                       ELSE (IF j \in hit(m) THEN <<m @@ right[j]>> ELSE <<>>)
                                \o pairs(m, j + 1)
        RECURSIVE join(_)
        join(i) == IF i > Len(rows) THEN <<>>
                   ELSE (IF hit(rows[i]) = {} THEN <<rows[i]>>
                                              ELSE pairs(rows[i], 1))
                            \o join(i + 1)
    IN  join(1)

\* groupby(keys, as_index=False) with an aggregation: one row for a key.
group_keys(right, keys) ==
    LET first(i) == \A j \in 1..(i - 1) : ~mg_same(right[j], right[i], keys)
        RECURSIVE take(_)
        take(i) == IF i > Len(right) THEN <<>>
                   ELSE (IF first(i) THEN <<right[i]>> ELSE <<>>)
                            \o take(i + 1)
    IN  take(1)

\* groupby(keys, as_index=False)[[col]].sum()
group_sum(right, keys, col) ==
    LET RECURSIVE total(_, _)
        total(r, j) == IF j > Len(right) THEN 0
                       ELSE (IF mg_same(r, right[j], keys) THEN right[j][col]
                                                           ELSE 0)
                                + total(r, j + 1)
        summed(r) == [project(r, keys \cup {col}) EXCEPT ![col] = total(r, 1)]
    IN  map_rows(group_keys(right, keys), summed)

\* Lines 1977-1978.
use_id_merge(m) == \E i \in DOMAIN m : m[i].id # {}

mg_merge_keys(m) == IF use_id_merge(m) THEN {"id"} ELSE {"name_clean"}

\* Lines 2136-2169: for every horizon of need_map the frame has a column
\* for, the rows up to the cutoff, the last of each key, joined to main.
RECURSIVE merge_fpltv(_, _, _)
merge_fpltv(rows, f, i) ==
    IF i > Len(need_map) THEN rows
    ELSE LET n == need_map[i]
             keys == IF f.keys = "both" THEN {"platform", "id"}
                                        ELSE {"platform"}
             old(r) == r.age >= n
             sub == SelectSeq(f.rows, old)
             keep(r) == project(r, keys)
         IN  IF n \notin f.columns \/ sub = <<>>
             THEN merge_fpltv(rows, f, i + 1)
             ELSE merge_fpltv(left_join(rows,
                                        map_rows(group_keys(sub, keys), keep),
                                        keys),
                              f, i + 1)

\* Lines 2093-2101: the platform-level cost fills the cells the
\* channel-level cost left empty.
fill_spend(r, tmp) ==
    LET hit == {j \in DOMAIN tmp : tmp[j].platform = r.platform}
    IN  IF "spend" \in DOMAIN r \/ hit = {} THEN r
        ELSE r @@ [spend |-> tmp[CHOOSE j \in hit : TRUE].spend]

cell(r, col) == IF col \in DOMAIN r THEN r[col] ELSE 0

frac_add(f, g) == Frac(f.n * g.d + g.n * f.d, f.d * g.d)

\* Lines 2235-2266: num(col, 0) of the counts and amounts, and the ratios of
\* the row.  Aliases: firstpay_conv 首充转化率, cost_register 注册成本,
\* arppu 首充arppu.
with_ratios(r) ==
    LET reg == cell(r, "register")
        fpu == cell(r, "firstpay_u")
        fpa == cell(r, "firstpay_a")
        spend == cell(r, "spend")
    IN  [platform |-> r.platform, id |-> r.id,
         register |-> reg, firstpay_u |-> fpu, firstpay_a |-> fpa,
         spend |-> spend,
         firstpay_conv |-> IF reg > 0 THEN int_div(fpu, reg) ELSE Zero,
         cost_register |-> IF reg > 0 THEN int_div(spend, reg) ELSE Zero,
         arppu |-> IF fpu > 0 THEN int_div(fpa, fpu) ELSE Zero]

MgCounts == {"register", "firstpay_u", "firstpay_a", "spend"}
MgRatios == {"firstpay_conv", "cost_register", "arppu"}

\* Lines 2393-2527: groupby([日期, 盘口, 总代号]).agg(agg_dict): a row with a
\* null platform or id leaves with its group, every numeric column is
\* summed, the ratio columns with the others; the groups come in the order
\* of their keys, platform and then id (the groupby sorts, and so does
\* sort_values(group_cols) of line 2527), whatever order the rows had.
aggregate_rows(rows) ==
    LET full(r) == r.platform # NA /\ r.id # {}
        kept == SelectSeq(rows, full)
        keys == {"platform", "id"}
        before(a, b) ==
            \/ plat_no(a.platform) < plat_no(b.platform)
            \/ a.platform = b.platform /\ id_lt(id_of(a.id), id_of(b.id))
        RECURSIVE sort_values(_, _)
        sort_values(g, I) ==
            IF I = {} THEN <<>>
            ELSE LET m == CHOOSE i \in I :
                              \A j \in I \ {i} : before(g[i], g[j])
                 IN  <<g[m]>> \o sort_values(g, I \ {m})
        groups == group_keys(kept, keys)
        RECURSIVE sum_int(_, _, _)
        sum_int(r, c, j) ==
            IF j > Len(kept) THEN 0
            ELSE (IF mg_same(r, kept[j], keys) THEN kept[j][c] ELSE 0)
                     + sum_int(r, c, j + 1)
        RECURSIVE sum_frac(_, _, _)
        sum_frac(r, c, j) ==
            IF j > Len(kept) THEN Zero
            ELSE IF mg_same(r, kept[j], keys)
                 THEN frac_add(kept[j][c], sum_frac(r, c, j + 1))
                 ELSE sum_frac(r, c, j + 1)
        out(r) == [c \in DOMAIN r |->
                      IF c \in MgCounts THEN sum_int(r, c, 1)
                      ELSE IF c \in MgRatios THEN sum_frac(r, c, 1)
                      ELSE r[c]]
    IN  map_rows(sort_values(groups, DOMAIN groups), out)

InitMerge ==
    /\ IdleCls /\ IdleSel /\ IdleMet /\ IdleStd /\ IdleMap /\ IdleMain
    /\ IdlePick /\ IdleScn /\ IdleRet /\ IdleLtv /\ IdleCost /\ IdleWr
    /\ IdleNd /\ IdleTail /\ IdleScr
    /\ mg_pc = "main"
    /\ mg_base \in MgMains
    /\ mg_main = mg_base
    /\ mg_agent \in MgAgents(mg_base)
    /\ mg_daily \in MgDailies
    /\ mg_primary \in MgPrimaries
    /\ mg_cost \in MgCosts
    /\ mg_platform \in MgPlatforms
    /\ mg_fpltv \in MgFpltvs
    /\ mg_ret \in MgRets
    /\ mg_out = <<>>

\* Lines 1982-2029: the agent frame has both merge keys of either strategy.
MergeAgent ==
    /\ mg_pc = "main"
    /\ LET keys == mg_merge_keys(mg_base)
           tmp(r) == project(r, keys \cup {"register", "firstpay_u",
                                           "firstpay_a"})
       IN  mg_main' = IF mg_agent = <<>> THEN mg_main
                      ELSE left_join(mg_main, map_rows(mg_agent, tmp), keys)
    /\ mg_pc' = "agent"
    /\ UNCHANGED <<mg_base, mg_agent, mg_daily, mg_primary, mg_cost,
                   mg_platform, mg_fpltv, mg_ret, mg_out, other_than_mg>>

\* Lines 2031-2040: the daily frame's first-pay and active-payer columns
\* are joined to main; merge(..., suffixes=("", "")) raises ValueError when
\* both frames hold a column of one name, that is when main has the
\* first-pay columns from the agent frame and the daily frame brings them
\* too.
MergeDaily ==
    /\ mg_pc = "agent"
    /\ LET keys == mg_merge_keys(mg_base)
           data_cols == {"firstpay_a", "firstpay_u", "pay_active_u"}
           cols == keys \cup (data_cols \cap DOMAIN mg_daily[1])
           tmp(r) == project(r, cols)
           main_cols == UNION {DOMAIN mg_main[i] : i \in DOMAIN mg_main}
       IN  IF mg_daily = <<>>
           THEN /\ mg_pc' = "daily"
                /\ UNCHANGED mg_main
           ELSE IF (cols \ keys) \cap main_cols # {}
           THEN /\ mg_pc' = "raised"
                /\ UNCHANGED mg_main
           ELSE /\ mg_main' = left_join(mg_main, map_rows(mg_daily, tmp),
                                        keys)
                /\ mg_pc' = "daily"
    /\ UNCHANGED <<mg_base, mg_agent, mg_daily, mg_primary, mg_cost,
                   mg_platform, mg_fpltv, mg_ret, mg_out, other_than_mg>>

\* Lines 2043-2070: primary_firstpay holds date, id and the count, so the
\* join is skipped under the name strategy.
MergePrimary ==
    /\ mg_pc = "daily"
    /\ mg_main' = IF mg_primary = <<>> \/ ~use_id_merge(mg_base) THEN mg_main
                  ELSE left_join(mg_main, mg_primary, {"id"})
    /\ mg_pc' = "primary"
    /\ UNCHANGED <<mg_base, mg_agent, mg_daily, mg_primary, mg_cost,
                   mg_platform, mg_fpltv, mg_ret, mg_out, other_than_mg>>

\* Lines 2074-2084.
MergeCostChannel ==
    /\ mg_pc = "primary"
    /\ mg_main' = IF mg_cost = <<>> THEN mg_main
                  ELSE left_join(mg_main,
                                 group_sum(mg_cost, {"name_clean"}, "spend"),
                                 {"name_clean"})
    /\ mg_pc' = "cost_channel"
    /\ UNCHANGED <<mg_base, mg_agent, mg_daily, mg_primary, mg_cost,
                   mg_platform, mg_fpltv, mg_ret, mg_out, other_than_mg>>

\* Lines 2086-2101: the join brings the platform's columns under the
\* suffix _plat, which fill the empty cells and are dropped.
MergeCostPlatform ==
    /\ mg_pc = "cost_channel"
    /\ LET tmp == group_sum(mg_cost, {"platform"}, "spend")
           keys(r) == project(r, {"platform"})
           fill(r) == fill_spend(r, tmp)
       IN  mg_main' = IF mg_cost = <<>> THEN mg_main
                      ELSE map_rows(left_join(mg_main, map_rows(tmp, keys),
                                              {"platform"}),
                                    fill)
    /\ mg_pc' = "cost_platform"
    /\ UNCHANGED <<mg_base, mg_agent, mg_daily, mg_primary, mg_cost,
                   mg_platform, mg_fpltv, mg_ret, mg_out, other_than_mg>>

\* Lines 2104-2119: the frame is grouped by date and platform only when it
\* has one of the LTV columns (data_cols); without one it is joined as it
\* is.
MergePlatformLtv ==
    /\ mg_pc = "cost_platform"
    /\ LET tmp == IF mg_platform.has_ltv
                  THEN group_keys(mg_platform.rows, {"platform"})
                  ELSE mg_platform.rows
       IN  mg_main' = IF mg_platform.rows = <<>> THEN mg_main
                      ELSE left_join(mg_main, tmp, {"platform"})
    /\ mg_pc' = "platform_ltv"
    /\ UNCHANGED <<mg_base, mg_agent, mg_daily, mg_primary, mg_cost,
                   mg_platform, mg_fpltv, mg_ret, mg_out, other_than_mg>>

\* Lines 2122-2175.
MergeFpltv ==
    /\ mg_pc = "platform_ltv"
    /\ mg_main' = IF mg_fpltv.rows = <<>> THEN mg_main
                  ELSE merge_fpltv(mg_main, mg_fpltv, 1)
    /\ mg_pc' = "fpltv"
    /\ UNCHANGED <<mg_base, mg_agent, mg_daily, mg_primary, mg_cost,
                   mg_platform, mg_fpltv, mg_ret, mg_out, other_than_mg>>

\* Lines 2181-2225: the picked frame holds platform and id.
MergeRetention ==
    /\ mg_pc = "fpltv"
    /\ mg_main' = IF mg_ret = <<>> THEN mg_main
                  ELSE left_join(mg_main,
                                 group_keys(mg_ret, {"platform", "id"}),
                                 {"platform", "id"})
    /\ mg_pc' = "merged"
    /\ UNCHANGED <<mg_base, mg_agent, mg_daily, mg_primary, mg_cost,
                   mg_platform, mg_fpltv, mg_ret, mg_out, other_than_mg>>

\* Lines 2228-2266: the counts, the amounts and the ratios of every row.
ComputeRatios ==
    /\ mg_pc = "merged"
    /\ mg_main' = map_rows(mg_main, with_ratios)
    /\ mg_pc' = "metrics"
    /\ UNCHANGED <<mg_base, mg_agent, mg_daily, mg_primary, mg_cost,
                   mg_platform, mg_fpltv, mg_ret, mg_out, other_than_mg>>

\* Lines 2386-2529.
AggregateRows ==
    /\ mg_pc = "metrics"
    /\ mg_out' = aggregate_rows(mg_main)
    /\ mg_pc' = "aggregated"
    /\ UNCHANGED <<mg_base, mg_main, mg_agent, mg_daily, mg_primary, mg_cost,
                   mg_platform, mg_fpltv, mg_ret, other_than_mg>>

NextMerge ==
    \/ MergeAgent \/ MergeDaily \/ MergePrimary \/ MergeCostChannel
    \/ MergeCostPlatform \/ MergePlatformLtv \/ MergeFpltv \/ MergeRetention
    \/ ComputeRatios \/ AggregateRows

SpecMerge == InitMerge /\ [][NextMerge]_vars

\* C29 (as claimed): throughout the merge stage the working table holds
\* exactly the rows of the identity universe, one row each: no left join
\* adds or removes a row, under the date+id and the date+name strategy.
C29_JoinsKeepOneRowPerIdentity ==
    mg_pc \notin {"idle", "raised"} =>
        /\ Len(mg_main) = Len(mg_base)
        /\ \A i \in DOMAIN mg_main :
               project(mg_main[i], {"platform", "id"})
                   = project(mg_base[i], {"platform", "id"})

\* C30 (as claimed): in every output row the ratios agree with the counts
\* and amounts of that row: first-pay conversion is first-pay count over
\* register count, cost per register is spend over register count and
\* first-pay arppu is first-pay amount over first-pay count, each 0 when
\* its denominator is 0; no ratio is the sum of the ratios of several rows.
C30_RatiosAgreeWithCounts ==
    mg_pc = "aggregated" =>
        \A i \in DOMAIN mg_out :
            LET r == mg_out[i]
                agrees(q, n, d) == IF d = 0 THEN q.n = 0
                                            ELSE q.n * d = n * q.d
            IN  /\ agrees(r.firstpay_conv, r.firstpay_u, r.register)
                /\ agrees(r.cost_register, r.spend, r.register)
                /\ agrees(r.arppu, r.firstpay_a, r.firstpay_u)

====
